---- MODULE Spec2Model ----
(***************************************************************************)
(* A model of the Chittorgarh IPO / NCD scraper: the text normalizers      *)
(* (app/utils), the locator primitives and field extractors over a parsed  *)
(* document (app/scraper), the HTML cache of the fetcher and the batch     *)
(* endpoints (app/api).                                                    *)
(*                                                                         *)
(* Python values are tagged records: None, Str(text), Num(decimal),        *)
(* List(sequence).  A text is a sequence of atoms; an atom is a single     *)
(* character (digit, punctuation, blank) or a whole alphabetic word.       *)
(***************************************************************************)
EXTENDS Integers, Sequences, FiniteSets, TLC

VARIABLES call, ext, urls, i, results, cache, net, cache0, kind, resp

normVars == <<call>>
extVars == <<ext>>
apiVars == <<urls, i, results, cache, net, cache0, kind, resp>>
vars == <<call, ext, urls, i, results, cache, net, cache0, kind, resp>>

----------------------------------------------------------------------------
(* Python values *)

None == [t |-> "None"]
Str(s) == [t |-> "str", v |-> s]
Num(d) == [t |-> "num", v |-> d]
PyInt(n) == [t |-> "int", v |-> n]
List(l) == [t |-> "list", v |-> l]

IsNone(x) == x.t = "None"

\* Python truthiness of None, str, number and list values.
Truthy(x) ==
    CASE x.t = "None" -> FALSE
      [] x.t = "str" -> x.v # <<>>
      [] x.t = "list" -> x.v # <<>>
      [] x.t = "num" -> x.v.n # 0
      [] x.t = "int" -> x.v # 0
      [] OTHER -> TRUE

\* a or b
Or(a, b) == IF Truthy(a) THEN a ELSE b

----------------------------------------------------------------------------
(* Decimal numbers: n / 10^k, kept normalised (no trailing zero digit). *)

RECURSIVE Pow10(_)
Pow10(k) == IF k = 0 THEN 1 ELSE 10 * Pow10(k - 1)

RECURSIVE Normalise(_)
Normalise(d) ==
    IF d.k > 0 /\ d.n % 10 = 0 THEN Normalise([n |-> d.n \div 10, k |-> d.k - 1])
    ELSE d

Dec(n, k) == Normalise([n |-> n, k |-> k])

DecLeq(a, b) == a.n * Pow10(b.k) <= b.n * Pow10(a.k)
DecMin(a, b) == IF DecLeq(a, b) THEN a ELSE b
DecMax(a, b) == IF DecLeq(a, b) THEN b ELSE a

----------------------------------------------------------------------------
(* Characters and texts *)

DigitSeq == <<"0", "1", "2", "3", "4", "5", "6", "7", "8", "9">>
Digits == {DigitSeq[j] : j \in 1..10}
DigitVal == [c \in Digits |-> (CHOOSE j \in 1..10 : DigitSeq[j] = c) - 1]
IsDigit(c) == c \in Digits
IsSpace(c) == c = " "

RECURSIVE Concat(_)
Concat(ss) == IF ss = <<>> THEN <<>> ELSE Head(ss) \o Concat(Tail(ss))

\* str.replace(",", "")
RemoveCommas(s) == SelectSeq(s, LAMBDA c : c # ",")

\* Index of the last element of the run of digits that starts at p
RECURSIVE DigitRunEnd(_, _)
DigitRunEnd(s, p) ==
    IF p + 1 <= Len(s) /\ IsDigit(s[p + 1]) THEN DigitRunEnd(s, p + 1) ELSE p

\* The value of int(run) for a run of digits
RECURSIVE DigitsToNat(_)
DigitsToNat(ds) ==
    IF ds = <<>> THEN 0
    ELSE 10 * DigitsToNat(SubSeq(ds, 1, Len(ds) - 1)) + DigitVal[ds[Len(ds)]]

\* Match of the pattern \d+(\.\d+)? anchored at p, where s[p] is a digit:
\* the index of its last character (both quantifiers are greedy).
NumberEnd(s, p) ==
    LET q == DigitRunEnd(s, p)
    IN IF q + 2 <= Len(s) /\ s[q + 1] = "." /\ IsDigit(s[q + 2])
       THEN DigitRunEnd(s, q + 2)
       ELSE q

\* Leftmost position >= p holding a digit, 0 when there is none
RECURSIVE FirstDigitFrom(_, _)
FirstDigitFrom(s, p) ==
    IF p > Len(s) THEN 0
    ELSE IF IsDigit(s[p]) THEN p
    ELSE FirstDigitFrom(s, p + 1)

\* float(m) for a matched text m of the form \d+(\.\d+)?
ToFloat(m) ==
    LET q == DigitRunEnd(m, 1)
        ip == SubSeq(m, 1, q)
        fp == IF q < Len(m) THEN SubSeq(m, q + 2, Len(m)) ELSE <<>>
    IN Dec(DigitsToNat(ip \o fp), Len(fp))

\* re.search(r"(\d+(\.\d+)?)", s): group 1 of the leftmost match, or None
SearchNumber(s) ==
    LET p == FirstDigitFrom(s, 1)
    IN IF p = 0 THEN None ELSE Str(SubSeq(s, p, NumberEnd(s, p)))

NoCommaStrip(value) == value

StripThousands(value) == RemoveCommas(value)

\* app.utils.normalizers.parse_float
parse_float(value) ==
    IF ~Truthy(value) THEN None
    ELSE LET m == SearchNumber(StripThousands(value.v))
         IN IF IsNone(m) THEN None ELSE Num(ToFloat(m.v))

----------------------------------------------------------------------------
(* parse_date: datetime.strptime(value, "%a, %b %d, %Y") on atoms *)

\* strptime matches names case-insensitively: the capitalised form of an atom
Capitalised(a) == CASE a = "wed" -> "Wed" [] a = "jan" -> "Jan" [] a = "feb" -> "Feb" [] OTHER -> a

WeekdayAbbr == {"Mon", "Tue", "Wed", "Thu", "Fri", "Sat", "Sun"}
MonthSeq == <<"Jan", "Feb", "Mar", "Apr", "May", "Jun", "Jul", "Aug", "Sep", "Oct", "Nov", "Dec">>
MonthAbbr == {MonthSeq[j] : j \in 1..12}
MonthNum(m) == CHOOSE j \in 1..12 : MonthSeq[j] = m

IsLeap(y) == y % 4 = 0 /\ (y % 100 # 0 \/ y % 400 = 0)
DaysIn(m, y) ==
    IF m = 2 THEN (IF IsLeap(y) THEN 29 ELSE 28)
    ELSE IF m \in {4, 6, 9, 11} THEN 30 ELSE 31

Date(y, m, d) == [t |-> "date", y |-> y, m |-> m, d |-> d]

\* First index >= p that holds no blank (Len(s) + 1 when there is none)
RECURSIVE SkipSpaces(_, _)
SkipSpaces(s, p) ==
    IF p <= Len(s) /\ IsSpace(s[p]) THEN SkipSpaces(s, p + 1) ELSE p

\* str.strip()
RECURSIVE RStrip(_)
RStrip(s) == IF s # <<>> /\ IsSpace(s[Len(s)]) THEN RStrip(SubSeq(s, 1, Len(s) - 1)) ELSE s
Strip(s) == LET p == SkipSpaces(s, 1) IN RStrip(SubSeq(s, p, Len(s)))

\* ", \s+ %Y $" from position c: the year, or 0 when the rest does not match.
\* The blank of the format matches one or more blanks; %Y is exactly four digits.
YearRest(s, c) ==
    IF ~(c <= Len(s) /\ s[c] = ",") THEN 0
    ELSE LET y == SkipSpaces(s, c + 1)
         IN IF y > c + 1 /\ y + 3 = Len(s) /\ \A j \in y..(y + 3) : IsDigit(s[j])
            THEN DigitsToNat(SubSeq(s, y, y + 3))
            ELSE 0

\* %d is 3[0-1] | [1-2]\d | 0[1-9] | [1-9], tried in that order with backtracking
DayTwo(s, b) ==
    /\ b + 1 <= Len(s) /\ IsDigit(s[b]) /\ IsDigit(s[b + 1])
    /\ \/ s[b] = "3" /\ s[b + 1] \in {"0", "1"}
       \/ s[b] \in {"1", "2"}
       \/ s[b] = "0" /\ s[b + 1] # "0"
DayOne(s, b) == b <= Len(s) /\ IsDigit(s[b]) /\ s[b] # "0"

\* The ValueError of strptime and of date construction is the result None.
Strptime(s) ==
    IF ~(Len(s) >= 2 /\ Capitalised(s[1]) \in WeekdayAbbr /\ s[2] = ",") THEN None
    ELSE LET a == SkipSpaces(s, 3)
         IN IF ~(a > 3 /\ a <= Len(s) /\ Capitalised(s[a]) \in MonthAbbr) THEN None
            ELSE LET b == SkipSpaces(s, a + 1)
                     two == DayTwo(s, b) /\ YearRest(s, b + 2) # 0
                     one == DayOne(s, b) /\ YearRest(s, b + 1) # 0
                     dl == IF two THEN 2 ELSE 1
                     d == DigitsToNat(SubSeq(s, b, b + dl - 1))
                     y == YearRest(s, b + dl)
                     m == MonthNum(Capitalised(s[a]))
                 IN IF ~(b > a + 1 /\ (two \/ one)) THEN None
                    ELSE IF d <= DaysIn(m, y) THEN Date(y, m, d) ELSE None

DropAnyLast(v) == SubSeq(v, 1, Len(v) - 1)

\* value[:-1] if value.endswith("T") else value
DropMarker(v) == IF v[Len(v)] = "T" THEN SubSeq(v, 1, Len(v) - 1) ELSE v

\* app.utils.normalizers.parse_date
parse_date(value) ==
    IF ~Truthy(value) THEN None
    ELSE Strptime(Strip(DropMarker(value.v)))

----------------------------------------------------------------------------
(* _parse_price_band *)

\* re.findall(r"[\u20b9]?\s*(\d+(?:\.\d+)?)", s) from position p: the captured numbers
RECURSIVE FindAllNumbers(_, _)
FindAllNumbers(s, p) ==
    LET d == FirstDigitFrom(s, p)
    IN IF d = 0 THEN <<>>
       ELSE LET e == NumberEnd(s, d)
            IN <<ToFloat(SubSeq(s, d, e))>> \o FindAllNumbers(s, e + 1)

RECURSIVE SeqMin(_)
SeqMin(f) == IF Len(f) = 1 THEN f[1] ELSE DecMin(f[1], SeqMin(Tail(f)))
RECURSIVE SeqMax(_)
SeqMax(f) == IF Len(f) = 1 THEN f[1] ELSE DecMax(f[1], SeqMax(Tail(f)))

Band(lo, hi) == [low |-> lo, high |-> hi]

\* app.scraper.chittorgarh._parse_price_band
parse_price_band(s) ==
    IF ~Truthy(s) THEN Band(None, None)
    ELSE LET f == FindAllNumbers(s.v, 1)
         IN IF f = <<>> THEN Band(None, None)
            ELSE Band(Num(SeqMin(f)), Num(SeqMax(f)))

\* re.split(r"\s*/\s*", s): the pieces between the slashes, the blanks around
\* a slash going with it
RECURSIVE FirstSlashFrom(_, _)
FirstSlashFrom(s, p) ==
    IF p > Len(s) THEN 0
    ELSE IF s[p] = "/" THEN p
    ELSE FirstSlashFrom(s, p + 1)
RECURSIVE SlashSplit(_)
SlashCut(s, cut) ==
    IF cut = 0 THEN <<s>>
    ELSE <<RStrip(SubSeq(s, 1, cut - 1))>> \o SlashSplit(SubSeq(s, SkipSpaces(s, cut + 1), Len(s)))
SlashSplit(s) == SlashCut(s, FirstSlashFrom(s, 1))

\* str.isdigit(): not empty and every character a digit
IsDigitText(p) == p # <<>> /\ \A j \in 1..Len(p) : IsDigit(p[j])

\* The pair (bse, nse)
Codes(b, n) == [bse |-> b, nse |-> n]
\* The pair that takes the first part whatever its characters
CodesUnchecked(parts) ==
    Codes(Str(parts[1]), IF Len(parts) > 1 THEN Str(parts[2]) ELSE None)
\* bse = parts[0] if parts[0].isdigit() else None; nse = parts[1] if len(parts) > 1 else None
CodesOf(parts) ==
    Codes(IF Len(parts) > 0 /\ IsDigitText(parts[1]) THEN Str(parts[1]) ELSE None,
          IF Len(parts) > 1 THEN Str(parts[2]) ELSE None)

\* app.scraper.chittorgarh._parse_bse_nse
parse_bse_nse(s) ==
    IF ~Truthy(s) THEN Codes(None, None)
    ELSE CodesOf([j \in 1..Len(SlashSplit(s.v)) |-> Strip(SlashSplit(s.v)[j])])

----------------------------------------------------------------------------
(* The normalizers applied to bounded inputs *)

MaxFloatLen == 4
MaxGap == 2
MaxPad == 2

SeqsUpTo(S, n) == UNION {[1..k -> S] : k \in 0..n}

FloatChars == {"2", "5", "0", ".", ",", "Cr"}
FloatInputs == {None} \cup {Str(s) : s \in SeqsUpTo(FloatChars, MaxFloatLen)}

Blanks(n) == [j \in 1..n |-> " "]

\* A date text: weekday, comma, gap, month, gap, day, comma, gap, year
DateForm(wd, g1, mon, g2, day, g3, yr) ==
    <<wd, ",">> \o Blanks(g1) \o <<mon>> \o Blanks(g2) \o day \o <<",">> \o Blanks(g3) \o yr

DateCores ==
    {DateForm(wd, g[1], mon, g[2], day, g[3], <<"2", "0", "2", "6">>) :
        wd \in {"Wed", "wed", "Wednesday"}, mon \in {"Jan", "Feb", "January"},
        day \in {<<"2", "8">>, <<"3", "0">>, <<"5">>},
        g \in {<<1, 1, 1>>} \cup {[j \in 1..3 |-> IF j = k THEN n ELSE 1] : k \in 1..3, n \in 0..MaxGap}}
    \cup {<<"2", "8", " ", "Jan", " ", "2", "0", "2", "6">>, <<>>}

DateInputs ==
    {None} \cup {Str(Blanks(pre) \o c \o suf) :
                    pre \in 0..1, c \in DateCores, suf \in SeqsUpTo({"T", " "}, MaxPad)}

PriceNums == {<<"2", "1">>, <<"2", "3">>, <<"2", "1", ".", "5">>, <<"1", ",", "2", "0", "0">>}
PricePre == {<<>>, <<"Rs">>, <<"Rs", " ">>}
PriceMid == {<<" ", "to", " ">>, <<"-">>}
PricePost == {<<>>, <<" ", "per", " ", "share">>}

SingleText(pre, n, post) == pre \o n \o post
RangeText(pre, n1, mid, n2, post) == pre \o n1 \o mid \o pre \o n2 \o post

PriceInputs ==
    {None, Str(<<>>), Str(<<"NA">>)}
    \cup {Str(SingleText(pre, n, post)) : pre \in PricePre, n \in PriceNums, post \in PricePost}
    \cup {Str(RangeText(pre, n1, mid, n2, post)) :
            pre \in PricePre, n1 \in PriceNums, mid \in PriceMid, n2 \in PriceNums, post \in PricePost}

\* A combined exchange-code cell: tokens with slashes between them, blanks
\* around the slashes and around the text
CodeTokens == {<<>>, <<"5", "4">>, <<"BHARATCOAL">>, <<"5", "A">>, <<"5", " ", "4">>}
CodeCell(a, l, r, b) == a \o Blanks(l) \o <<"/">> \o Blanks(r) \o b
CodeInputs ==
    {None} \cup {Str(a) : a \in CodeTokens}
    \cup {Str(Blanks(pre) \o CodeCell(a, l, r, b) \o rest) :
             pre \in 0..1, a \in CodeTokens, b \in CodeTokens, l \in 0..MaxGap, r \in 0..MaxGap,
             rest \in {<<>>, <<" ">>, <<"/", "X">>, <<" ", "/", " ", "X">>}}

NoCall == [fn |-> "none", arg |-> None, ret |-> None]

CallParseFloat ==
    /\ call = NoCall
    /\ \E s \in FloatInputs : call' = [fn |-> "parse_float", arg |-> s, ret |-> parse_float(s)]
    /\ UNCHANGED <<extVars, apiVars>>

CallParseDate ==
    /\ call = NoCall
    /\ \E s \in DateInputs : call' = [fn |-> "parse_date", arg |-> s, ret |-> parse_date(s)]
    /\ UNCHANGED <<extVars, apiVars>>

CallParsePriceBand ==
    /\ call = NoCall
    /\ \E s \in PriceInputs :
          call' = [fn |-> "_parse_price_band", arg |-> s, ret |-> parse_price_band(s)]
    /\ UNCHANGED <<extVars, apiVars>>

CallParseBseNse ==
    /\ call = NoCall
    /\ \E s \in CodeInputs : call' = [fn |-> "_parse_bse_nse", arg |-> s, ret |-> parse_bse_nse(s)]
    /\ UNCHANGED <<extVars, apiVars>>

\* The caller takes the result; the next call starts afresh
Return ==
    /\ call # NoCall
    /\ call' = NoCall
    /\ UNCHANGED <<extVars, apiVars>>

IdleExt == [kind |-> "none"]
IdleResp == [kind |-> "none"]

InitNorm ==
    /\ call = NoCall
    /\ ext = IdleExt
    /\ urls = <<>> /\ i = 0 /\ results = <<>> /\ kind = "none" /\ resp = IdleResp
    /\ cache = <<>> /\ cache0 = <<>> /\ net = <<>>

NextNorm == CallParseFloat \/ CallParseDate \/ CallParsePriceBand \/ CallParseBseNse \/ Return

SpecNorm == InitNorm /\ [][NextNorm]_vars

----------------------------------------------------------------------------
(* Reference notions for the normalizer properties *)

HasDigit(s) == \E j \in 1..Len(s) : IsDigit(s[j])

WithoutSeparators(s) == SelectSeq(s, LAMBDA c : c # ",")

\* w is digits, or digits "." digits
IsNumberText(w) ==
    \E q \in 1..Len(w) :
        /\ \A j \in 1..q : IsDigit(w[j])
        /\ \/ q = Len(w)
           \/ q + 1 < Len(w) /\ w[q + 1] = "." /\ \A j \in (q + 2)..Len(w) : IsDigit(w[j])

\* The decimal d is the value of the number text w
ValueIs(w, d) ==
    LET ds == SelectSeq(w, IsDigit)
        dot == {j \in 1..Len(w) : w[j] = "."}
        f == IF dot = {} THEN 0 ELSE Len(w) - (CHOOSE j \in dot : TRUE)
    IN d.n * Pow10(f) = DigitsToNat(ds) * Pow10(d.k)

\* The first decimal-or-integer numeric substring of t (t holds a digit)
FirstNumberText(t) ==
    LET p == CHOOSE p \in 1..Len(t) : IsDigit(t[p]) /\ \A j \in 1..(p - 1) : ~IsDigit(t[j])
        e == CHOOSE e \in p..Len(t) :
                 /\ IsNumberText(SubSeq(t, p, e))
                 /\ \A e2 \in (e + 1)..Len(t) : ~IsNumberText(SubSeq(t, p, e2))
    IN SubSeq(t, p, e)

\* C8: for a text with at least one digit parse_float returns the value of the
\* first decimal-or-integer numeric substring of the text without its thousands
\* separators, whatever currency or unit text surrounds it; for a text without
\* a digit, the empty text and None it returns None.
C8_FloatOfFirstNumber ==
    call.fn = "parse_float" =>
        IF call.arg.t = "str" /\ HasDigit(call.arg.v)
        THEN /\ call.ret.t = "num"
             /\ ValueIs(FirstNumberText(WithoutSeparators(call.arg.v)), call.ret.v)
        ELSE call.ret = None

C8_Witness ==
    /\ call.fn = "parse_float"
    /\ call.arg = Str(<<"2", ",", "5", "Cr">>)
    /\ call.ret = Num(Dec(25, 0))

\* Blank runs collapsed to one blank, leading and trailing blanks removed
RECURSIVE Squeeze(_)
Squeeze(s) ==
    IF s = <<>> THEN <<>>
    ELSE IF IsSpace(s[1]) /\ (Len(s) = 1 \/ IsSpace(s[2])) THEN Squeeze(Tail(s))
    ELSE IF IsSpace(s[1]) THEN
        (IF Squeeze(Tail(s)) = <<>> THEN <<>> ELSE <<" ">> \o Squeeze(Tail(s)))
    ELSE <<s[1]>> \o Squeeze(Tail(s))
Squeezed(s) == LET q == Squeeze(s) IN IF q # <<>> /\ IsSpace(q[1]) THEN Tail(q) ELSE q

ThreeLetterWeekdays == WeekdayAbbr \cup {"wed"}
ThreeLetterMonths == MonthAbbr \cup {"jan", "feb"}

\* Three-letter weekday, comma, three-letter month, day, comma, four-digit year
Canonical(s) ==
    /\ Len(s) \in {12, 13}
    /\ s[1] \in ThreeLetterWeekdays /\ s[2] = "," /\ s[3] = " "
    /\ s[4] \in ThreeLetterMonths /\ s[5] = " "
    /\ LET dl == Len(s) - 11
       IN /\ \A j \in 6..(5 + dl) : IsDigit(s[j])
          /\ s[6 + dl] = "," /\ s[7 + dl] = " "
          /\ \A j \in (8 + dl)..(11 + dl) : IsDigit(s[j])

CanonicalDate(s) ==
    LET dl == Len(s) - 11
    IN Date(DigitsToNat(SubSeq(s, 8 + dl, 11 + dl)), MonthNum(Capitalised(s[4])),
            DigitsToNat(SubSeq(s, 6, 5 + dl)))

IsCalendarDate(dt) == dt.d >= 1 /\ dt.d <= DaysIn(dt.m, dt.y) /\ dt.y >= 1

WithoutFinalMarker(s) == IF s # <<>> /\ s[Len(s)] = "T" THEN SubSeq(s, 1, Len(s) - 1) ELSE s

\* C9 as claimed: a canonical date text, with or without one trailing "T",
\* gives its calendar date, and every other input gives None.
C9_DateStrict ==
    call.fn = "parse_date" =>
        LET body == IF call.arg.t = "str" THEN WithoutFinalMarker(call.arg.v) ELSE <<>>
        IN IF Canonical(body) /\ IsCalendarDate(CanonicalDate(body))
           THEN call.ret = CanonicalDate(body)
           ELSE call.ret = None

\* C9 (amended): parse_date returns the same calendar date for a canonical date
\* text with and without one trailing "T", also when the text has leading or
\* trailing blanks (blanks between the date and the marker included) or runs of
\* blanks where the canonical form has one; every other input (day-month-year
\* text, full month or weekday names, a marker followed by a blank, a day that
\* the month does not have, the empty text, None) gives None.
C9_DateLenient ==
    call.fn = "parse_date" =>
        LET body == IF call.arg.t = "str" THEN Squeezed(WithoutFinalMarker(call.arg.v)) ELSE <<>>
        IN IF Canonical(body) /\ IsCalendarDate(CanonicalDate(body))
           THEN /\ call.ret = CanonicalDate(body)
                /\ parse_date(Str(body \o <<"T">>)) = call.ret
                /\ parse_date(Str(body)) = call.ret
           ELSE call.ret = None

C9_Witness ==
    /\ call.fn = "parse_date"
    /\ call.arg = Str(<<"Wed", ",", " ", "Jan", " ", "2", "8", ",", " ", "2", "0", "2", "6", "T">>)
    /\ call.ret = Date(2026, 1, 28)

\* C10 as claimed: a two-endpoint price text and the same text with the
\* endpoints swapped give the same (low, high) with low <= high, and a
\* single-value text gives (value, value).
C10_PriceBandOrderFree ==
    call.fn = "_parse_price_band" =>
        /\ \A pre \in PricePre, n1 \in PriceNums, mid \in PriceMid, n2 \in PriceNums, post \in PricePost :
              call.arg = Str(RangeText(pre, n1, mid, n2, post)) =>
                  /\ parse_price_band(Str(RangeText(pre, n2, mid, n1, post))) = call.ret
                  /\ call.ret.low.t = "num" /\ call.ret.high.t = "num"
                  /\ DecLeq(call.ret.low.v, call.ret.high.v)
        /\ \A pre \in PricePre, n \in PriceNums, post \in PricePost :
              call.arg = Str(SingleText(pre, n, post)) =>
                  /\ call.ret.low.t = "num" /\ call.ret.high = call.ret.low
                  /\ ValueIs(WithoutSeparators(n), call.ret.low.v)

----------------------------------------------------------------------------
(* Parsed documents.  A document is written as a tree of tags and strings  *)
(* and kept, as the parser keeps it, in document order: node 1 is the      *)
(* document object, each node records its parent and its last descendant.  *)
(* Attribute names are lower case, as the HTML parser leaves them.  The    *)
(* node 0 stands for "no element" (None).                                  *)

NavigableString(s) == [tag |-> "#text", at |-> <<>>, kids |-> <<>>, text |-> s]
Tag(name, attrs, contents) == [tag |-> name, at |-> attrs, kids |-> contents, text |-> <<>>]
E(name, contents) == Tag(name, <<>>, contents)
\* <name>s</name>
T(name, s) == Tag(name, <<>>, <<NavigableString(s)>>)
\* <name class="c">s</name>
Tc(name, c, s) == Tag(name, [class |-> <<c>>], <<NavigableString(s)>>)

RECURSIVE Flatten(_, _, _), FlattenAll(_, _, _)
Flatten(node, parent, at) ==
    LET below == FlattenAll(node.kids, at, at + 1)
    IN <<[tag |-> node.tag, at |-> node.at, text |-> node.text,
          parent |-> parent, last |-> at + Len(below)]>> \o below
FlattenAll(nodes, parent, at) ==
    IF nodes = <<>> THEN <<>>
    ELSE LET h == Flatten(Head(nodes), parent, at)
         IN h \o FlattenAll(Tail(nodes), parent, at + Len(h))

\* BeautifulSoup(html, "lxml"): the parser wraps the content in html and body;
\* the empty page gives the bare document object.
BeautifulSoup(html) ==
    IF html = <<>> THEN Flatten(E("[document]", <<>>), 0, 1)
    ELSE Flatten(E("[document]", <<E("html", <<E("body", html)>>)>>), 0, 1)

IsTag(d, m) == d[m].tag # "#text"
Named(d, m, names) == d[m].tag \in names
HasAttr(d, m, a) == a \in DOMAIN d[m].at

\* The tags below n, in document order
Descendants(d, n) == [j \in 1..(d[n].last - n) |-> n + j]

find_all(d, n, P(_)) == SelectSeq(Descendants(d, n), LAMBDA m : IsTag(d, m) /\ P(m))
First(r) == IF r = <<>> THEN 0 ELSE r[1]
find(d, n, P(_)) == First(find_all(d, n, P))

find_next_sibling(d, n, P(_)) ==
    First(SelectSeq([j \in 1..(Len(d) - n) |-> n + j],
                    LAMBDA m : d[m].parent = d[n].parent /\ IsTag(d, m) /\ P(m)))

find_next(d, n, P(_)) ==
    First(SelectSeq([j \in 1..(Len(d) - n) |-> n + j], LAMBDA m : IsTag(d, m) /\ P(m)))

find_previous(d, n, P(_)) ==
    First(SelectSeq([j \in 1..(n - 1) |-> n - j], LAMBDA m : IsTag(d, m) /\ P(m)))

\* tag.get_text(): the strings of the subtree, concatenated
get_text(d, n) ==
    Concat([j \in 1..(d[n].last - n + 1) |->
               IF IsTag(d, n + j - 1) THEN <<>> ELSE d[n + j - 1].text])

\* tag.get_text(strip=True): each string stripped, the empty ones dropped
get_text_strip(d, n) ==
    Concat([j \in 1..(d[n].last - n + 1) |->
               IF IsTag(d, n + j - 1) THEN <<>> ELSE Strip(d[n + j - 1].text)])

\* re.sub(r"\s+", " ", text)
RECURSIVE CollapseSpaces(_)
CollapseSpaces(s) ==
    IF s = <<>> THEN <<>>
    ELSE IF IsSpace(s[1]) /\ Len(s) > 1 /\ IsSpace(s[2]) THEN CollapseSpaces(Tail(s))
    ELSE <<(IF IsSpace(s[1]) THEN " " ELSE s[1])>> \o CollapseSpaces(Tail(s))

clean_text(text) == IF text = <<>> THEN <<>> ELSE Strip(CollapseSpaces(text))

\* The rupee sign, written U+20B9: one character, no letter
Rupee == "U+20B9"

\* str.lower(), character by character
UpperCase == "ABCDEFGHIJKLMNOPQRSTUVWXYZ"
LowerCase == "abcdefghijklmnopqrstuvwxyz"
LowerChar(c) ==
    IF \E k \in 1..26 : SubSeq(UpperCase, k, k) = c
    THEN SubSeq(LowerCase, CHOOSE k \in 1..26 : SubSeq(UpperCase, k, k) = c,
                CHOOSE k \in 1..26 : SubSeq(UpperCase, k, k) = c)
    ELSE c
RECURSIVE LowerWord(_)
LowerWord(a) == IF Len(a) = 0 THEN a ELSE LowerChar(Head(a)) \o LowerWord(Tail(a))
LowerAtom(a) == IF a = Rupee THEN a ELSE LowerWord(a)
Lower(s) == [j \in 1..Len(s) |-> LowerAtom(s[j])]

\* a is a proper part of the word b: at its start, at its end, inside it
\* away from both ends
WordStart(a, b) ==
    a # Rupee /\ b # Rupee /\ Len(a) < Len(b) /\ SubSeq(b, 1, Len(a)) = a
WordEnd(a, b) ==
    a # Rupee /\ b # Rupee /\ Len(a) < Len(b) /\ SubSeq(b, Len(b) - Len(a) + 1, Len(b)) = a
WordMiddle(a, b) ==
    /\ a # Rupee /\ b # Rupee
    /\ \E p \in 2..(Len(b) - Len(a)) : SubSeq(b, p, p + Len(a) - 1) = a

\* sub in s, for texts: the atoms of sub lie on consecutive atoms of s, the
\* first one possibly on the end of a word and the last one on the start
In(sub, s) ==
    \E p \in 0..(Len(s) - Len(sub)) : \A j \in 1..Len(sub) :
        \/ s[p + j] = sub[j]
        \/ j = 1 /\ WordEnd(sub[j], s[p + j])
        \/ j = Len(sub) /\ WordStart(sub[j], s[p + j])
        \/ Len(sub) = 1 /\ WordMiddle(sub[j], s[p + j])

\* needle in c, for class names and ids
InName(needle, c) == c = needle \/ WordStart(needle, c) \/ WordEnd(needle, c) \/ WordMiddle(needle, c)

\* class_=lambda x: x and needle in x  (called with each class of the tag)
HasClass(d, m, needle) ==
    /\ HasAttr(d, m, "class")
    /\ \E k \in 1..Len(d[m].at.class) : InName(needle, d[m].at.class[k])

----------------------------------------------------------------------------
(* Locator primitives (app/scraper/parser.py) *)

\* The lookup that takes the last cell holding the label
LastLabelCell(soup, label) ==
    LET tds == find_all(soup, 1, LAMBDA m : Named(soup, m, {"td"}))
        hits == SelectSeq(tds, LAMBDA td : In(Lower(label), Lower(get_text_strip(soup, td))))
        hit == IF hits = <<>> THEN 0 ELSE hits[Len(hits)]
        next_td == find_next_sibling(soup, hit, LAMBDA m : Named(soup, m, {"td"}))
    IN IF hit = 0 THEN None
       ELSE IF next_td # 0 THEN Str(clean_text(get_text(soup, next_td)))
       ELSE None

get_value_by_label_contains(soup, label) ==
    LET tds == find_all(soup, 1, LAMBDA m : Named(soup, m, {"td"}))
        hit == First(SelectSeq(tds, LAMBDA td : In(Lower(label), Lower(get_text_strip(soup, td)))))
        next_td == find_next_sibling(soup, hit, LAMBDA m : Named(soup, m, {"td"}))
    IN IF hit = 0 THEN None
       ELSE IF next_td # 0 THEN Str(clean_text(get_text(soup, next_td)))
       ELSE None

get_value_by_label_in_li(soup, label) ==
    LET ul == find(soup, 1, LAMBDA m : Named(soup, m, {"ul"}) /\ HasClass(soup, m, "top-ratios"))
        Spans(li) == find_all(soup, li, LAMBDA m : Named(soup, m, {"span"}))
        Labelled(li) == \E k \in 1..Len(Spans(li)) :
                            In(Lower(label), Lower(clean_text(get_text(soup, Spans(li)[k]))))
        li == First(SelectSeq(find_all(soup, ul, LAMBDA m : Named(soup, m, {"li"})), Labelled))
        val_span == find(soup, li, LAMBDA m : Named(soup, m, {"span"}) /\ HasClass(soup, m, "text-end"))
    IN IF ul = 0 THEN None
       ELSE IF li = 0 THEN None
       ELSE IF val_span # 0 THEN Str(clean_text(get_text(soup, val_span)))
       ELSE IF Len(Spans(li)) >= 2 THEN Str(clean_text(get_text(soup, Spans(li)[Len(Spans(li))])))
       ELSE None

get_value_from_cards(soup, label) ==
    LET ps == find_all(soup, 1, LAMBDA m : Named(soup, m, {"p"}) /\ HasClass(soup, m, "text-muted"))
        next_p(p) == find_next_sibling(soup, p, LAMBDA m : Named(soup, m, {"p"}))
        fs5(p) == find(soup, soup[p].parent, LAMBDA m : Named(soup, m, {"p"}) /\ HasClass(soup, m, "fs-5"))
        Valued(p) == /\ In(Lower(label), Lower(clean_text(get_text(soup, p))))
                     /\ (next_p(p) # 0 \/ fs5(p) # 0)
        p == First(SelectSeq(ps, Valued))
    IN IF p = 0 THEN None
       ELSE IF next_p(p) # 0 THEN Str(clean_text(get_text(soup, next_p(p))))
       ELSE Str(clean_text(get_text(soup, fs5(p))))

\* The fallback chain in the opposite order: cards, table, labeled list
CardsFirst(soup, label) ==
    Or(Or(get_value_from_cards(soup, label), get_value_by_label_contains(soup, label)),
       get_value_by_label_in_li(soup, label))

get_ipo_value(soup, label) ==
    Or(Or(get_value_by_label_in_li(soup, label), get_value_by_label_contains(soup, label)),
       get_value_from_cards(soup, label))

get_ncd_value(soup, label) ==
    Or(Or(get_value_by_label_in_li(soup, label), get_value_by_label_contains(soup, label)),
       get_value_from_cards(soup, label))

----------------------------------------------------------------------------
(* Exceptions and source URLs *)

\* An exception that leaves the function, by its type
Raised(e) == [t |-> "raise", e |-> e]
IsRaised(x) == x.t = "raise"

\* A URL is a text whose atoms are "/", the digits of a numeric piece and the
\* other pieces between two slashes.
RECURSIVE RStripSlash(_)
RStripSlash(u) ==
    IF u # <<>> /\ u[Len(u)] = "/" THEN RStripSlash(SubSeq(u, 1, Len(u) - 1)) ELSE u

\* url.rstrip("/").split("/")[-1]
LastSegment(url) ==
    LET u == RStripSlash(url)
        cuts == {j \in 1..Len(u) : u[j] = "/"}
        from == IF cuts = {} THEN 1 ELSE 1 + CHOOSE j \in cuts : \A k \in cuts : k <= j
    IN SubSeq(u, from, Len(u))

\* int(seg) succeeds on an optionally signed run of digits
IsIntText(seg) ==
    LET s == Strip(seg)
        body == IF s # <<>> /\ s[1] \in {"-", "+"} THEN Tail(s) ELSE s
    IN body # <<>> /\ \A j \in 1..Len(body) : IsDigit(body[j])
IntOf(seg) ==
    LET s == Strip(seg)
    IN IF s[1] = "-" THEN 0 - DigitsToNat(Tail(s))
       ELSE IF s[1] = "+" THEN DigitsToNat(Tail(s))
       ELSE DigitsToNat(s)

\* First index at which sep occurs in u, 0 when it does not
IndexOf(sep, u) ==
    LET at == {p \in 1..(Len(u) - Len(sep) + 1) : \A j \in 1..Len(sep) : u[p + j - 1] = sep[j]}
    IN IF at = {} THEN 0 ELSE CHOOSE p \in at : \A q \in at : p <= q

\* url.split(sep)[1].split("/")[0] if sep in url else ""
SlugAfter(sep, url) ==
    LET p == IndexOf(sep, url)
        rest == SubSeq(url, p + Len(sep), Len(url))
        q == IndexOf(<<"/">>, rest)
    IN IF p = 0 THEN <<>>
       ELSE IF q = 0 THEN rest ELSE SubSeq(rest, 1, q - 1)

----------------------------------------------------------------------------
(* Widths of atoms, for len(text) *)

Width(a) == IF a = Rupee THEN 1 ELSE Len(a)
RECURSIVE CharLen(_)
CharLen(s) == IF s = <<>> THEN 0 ELSE Width(s[1]) + CharLen(Tail(s))

----------------------------------------------------------------------------
(* _extract_financials (app/scraper/chittorgarh.py) *)

\* datetime.strptime(s, "%d %b %Y").date(), None for the ValueError
StrptimeDMY(s) ==
    LET dl == IF DayTwo(s, 1) THEN 2 ELSE IF DayOne(s, 1) THEN 1 ELSE 0
        a == SkipSpaces(s, dl + 1)
        b == SkipSpaces(s, a + 1)
    IN IF dl = 0 THEN None
       ELSE IF ~(a > dl + 1 /\ a <= Len(s) /\ Capitalised(s[a]) \in MonthAbbr) THEN None
       ELSE IF ~(b > a + 1 /\ b + 3 = Len(s) /\ \A j \in b..(b + 3) : IsDigit(s[j])) THEN None
       ELSE LET d == DigitsToNat(SubSeq(s, 1, dl))
                m == MonthNum(Capitalised(s[a]))
                y == DigitsToNat(SubSeq(s, b, b + 3))
            IN IF d <= DaysIn(m, y) THEN Date(y, m, d) ELSE None

\* key_to_row, in the order of the dictionary
FinancialKeys == <<"assets", "total_income", "pat", "ebitda", "net_worth", "reserves", "borrowings">>
FinancialSubs == <<<<"asset">>, <<"total", " ", "income">>, <<"profit", " ", "after", " ", "tax">>,
                   <<"ebitda">>, <<"net", " ", "worth">>, <<"reserve">>, <<"borrowing">>>>

IsTd(d, m) == Named(d, m, {"td"})
IsTh(d, m) == Named(d, m, {"th"})
IsTr(d, m) == Named(d, m, {"tr"})
IdIs(d, m, v) == HasAttr(d, m, "id") /\ d[m].at.id = v

\* The least and the greatest of a set of numbers, 0 for the empty set
Least(ks) == IF ks = {} THEN 0 ELSE CHOOSE k \in ks : \A k2 \in ks : k <= k2
Greatest(ks) == IF ks = {} THEN 0 ELSE CHOOSE k \in ks : \A k2 \in ks : k2 <= k

\* tr.find_all("td")
TdCells(soup, tr) == find_all(soup, tr, LAMBDA m : IsTd(soup, m))
\* The number of the first key of key_to_row whose text is in the label of
\* the row, 0 when none is or the row has no cells
KeyOfCells(soup, cells) ==
    IF cells = <<>> THEN 0
    ELSE Least({k \in 1..7 : In(FinancialSubs[k], Lower(clean_text(get_text(soup, cells[1]))))})
RowKeys(soup, rows) ==
    [r \in 1..Len(rows) |-> IF r = 1 THEN 0 ELSE KeyOfCells(soup, TdCells(soup, rows[r]))]
\* row_vals[key]: the parsed cells after the first of the last row of that
\* key, None without such a row
ValsOfCells(soup, cells) ==
    List([c \in 1..(Len(cells) - 1) |-> parse_float(Str(clean_text(get_text(soup, cells[c + 1]))))])
ValsOfRow(soup, rows, r) == IF r = 0 THEN None ELSE ValsOfCells(soup, TdCells(soup, rows[r]))
RowVals(soup, rows, keys) ==
    [k \in 1..7 |-> ValsOfRow(soup, rows, Greatest({r \in 2..Len(rows) : keys[r] = k}))]

\* One entry of the result
Period(period_label, vals) ==
    [period_label |-> Str(period_label),
     period_end_date |-> StrptimeDMY(Strip(period_label)),
     assets |-> vals[1], total_income |-> vals[2], pat |-> vals[3],
     ebitda |-> vals[4], net_worth |-> vals[5], reserves |-> vals[6],
     borrowings |-> vals[7]]
\* The loop over the header's periods: row_vals[key][ci] of a row with
\* fewer cells raises
Periods(headers, row_vals) ==
    IF \E ci \in 1..(Len(headers) - 1), k \in 1..7 :
           row_vals[k] # None /\ ci > Len(row_vals[k].v)
    THEN Raised("IndexError")
    ELSE List([ci \in 1..(Len(headers) - 1) |->
                  Period(headers[ci + 1],
                         [k \in 1..7 |-> IF row_vals[k] = None THEN None ELSE row_vals[k].v[ci]])])
HeadersOf(soup, ths) == [k \in 1..Len(ths) |-> clean_text(get_text(soup, ths[k]))]
FinancialsOfRows(soup, rows) ==
    IF Len(rows) < 2 THEN List(<<>>)
    ELSE Periods(HeadersOf(soup, find_all(soup, rows[1], LAMBDA m : IsTh(soup, m))),
                 RowVals(soup, rows, RowKeys(soup, rows)))
FinancialsOfTable(soup, table) ==
    IF table = 0 THEN List(<<>>)
    ELSE FinancialsOfRows(soup, find_all(soup, table, LAMBDA m : IsTr(soup, m)))

extract_financials(soup) ==
    FinancialsOfTable(soup, find(soup, 1, LAMBDA m : Named(soup, m, {"table"})
                                                     /\ IdIs(soup, m, "financialTable")))

----------------------------------------------------------------------------
(* extract_section_by_heading and extract_faqs (app/scraper/parser.py) *)

AnyTag(d, m) == TRUE
AttrIs(d, m, a, v) == HasAttr(d, m, a) /\ d[m].at[a] = v
\* id=lambda x: x and needle in x.lower()
IdHas(d, m, needle) == HasAttr(d, m, "id") /\ InName(needle, LowerAtom(d[m].at.id))
\* a or b, for elements
OrNode(a, b) == IF a # 0 THEN a ELSE b

Headings == {"h1", "h2", "h3", "h4", "h5", "h6"}

\* The element after the heading, or after the heading's parent
SectionAfter(soup, heading, next_sibling) ==
    IF heading = 0 THEN 0
    ELSE IF next_sibling # 0 THEN next_sibling
    ELSE find_next_sibling(soup, soup[heading].parent, LAMBDA m : AnyTag(soup, m))
NextOf(soup, heading) ==
    SectionAfter(soup, heading, find_next_sibling(soup, heading, LAMBDA m : AnyTag(soup, m)))
HeadingWith(soup, hs, low) ==
    First(SelectSeq(hs, LAMBDA h : In(low, Lower(clean_text(get_text(soup, h))))))
extract_section_by_heading(soup, heading_text) ==
    NextOf(soup, HeadingWith(soup, find_all(soup, 1, LAMBDA m : Named(soup, m, Headings)),
                             Lower(heading_text)))

SchemaQuestion == "https://schema.org/Question"
SchemaAnswer == "https://schema.org/Answer"

\* "?" in question or len(question) > 10
LooksLikeQuestion(question) == In(<<"?">>, question) \/ CharLen(question) > 10

\* The two shapes of a FAQ entry the function builds
QuestionAnswers(q, a) == [question |-> Str(q), answers |-> Str(a)]
QuestionAnswer(q, a) == [question |-> Str(q), answer |-> Str(a)]

\* clean_text(e.get_text()) of an element, the empty text without one
TextOf(soup, e) == IF e = 0 THEN <<>> ELSE clean_text(get_text(soup, e))
\* a or b, for lists
OrSeq(a, b) == IF a # <<>> THEN a ELSE b

\* if question and answer and ("?" in question or len(question) > 10)
AccordionEntry(question, answer) ==
    IF question # <<>> /\ answer # <<>> /\ LooksLikeQuestion(question)
    THEN <<QuestionAnswers(question, answer)>>
    ELSE <<>>

IsAccordionItem(soup, m) == Named(soup, m, {"div"}) /\ HasClass(soup, m, "accordion-item")

\* Method 1: accordion items marked up as schema.org questions
Method1(soup, item) ==
    IF \/ AttrIs(soup, item, "itemType", SchemaQuestion)
       \/ find(soup, item, LAMBDA m : AttrIs(soup, m, "itemType", SchemaQuestion)) # 0
    THEN AccordionEntry(
             TextOf(soup,
                 OrNode(find(soup, item, LAMBDA m : AttrIs(soup, m, "itemProp", "name")),
                 OrNode(find(soup, item, LAMBDA m : Named(soup, m, {"button"})
                                                    /\ HasClass(soup, m, "accordion-button")),
                        find(soup, item, LAMBDA m : Named(soup, m, {"h6"}))))),
             TextOf(soup,
                 OrNode(find(soup, item, LAMBDA m : AttrIs(soup, m, "itemType", SchemaAnswer)),
                        find(soup, item, LAMBDA m : Named(soup, m, {"div"})
                                                    /\ HasClass(soup, m, "accordion-body")))))
    ELSE <<>>
Method1All(soup, accordion_items) ==
    Concat([k \in 1..Len(accordion_items) |-> Method1(soup, accordion_items[k])])

\* Method 2: the accordion items of the section after a FAQ heading
Question2(soup, item) ==
    find(soup, item, LAMBDA m : Named(soup, m, {"h3", "h4", "h5", "h6", "strong", "b", "button"}))
Body2(soup, item) ==
    find(soup, item, LAMBDA m : Named(soup, m, {"p", "div", "li"}) /\ HasClass(soup, m, "accordion-body"))
\* question_elem.find_next(...) on None
Raises2(soup, item) == Body2(soup, item) = 0 /\ Question2(soup, item) = 0
Method2Of(soup, question_elem, body) ==
    AccordionEntry(
        TextOf(soup, question_elem),
        TextOf(soup, OrNode(body, find_next(soup, question_elem, LAMBDA m : Named(soup, m, {"p", "div"})))))
Method2(soup, item) == Method2Of(soup, Question2(soup, item), Body2(soup, item))
Method2All(soup, section_accordions) ==
    Concat([k \in 1..Len(section_accordions) |-> Method2(soup, section_accordions[k])])

\* Method 2, without accordion entries: the headings of the section, each
\* with the element that follows it
HeadingEntry(question, answer) ==
    IF LooksLikeQuestion(question) /\ answer # <<>>
    THEN <<QuestionAnswer(question, answer)>>
    ELSE <<>>
Fallback(soup, q) ==
    HeadingEntry(
        TextOf(soup, q),
        TextOf(soup, OrNode(find_next(soup, q, LAMBDA m : Named(soup, m, {"p", "div", "li"})),
                            find_next(soup, soup[q].parent, LAMBDA m : Named(soup, m, {"p", "div", "li"})))))
FallbackAll(soup, questions) ==
    Concat([k \in 1..Len(questions) |-> Fallback(soup, questions[k])])

\* Method 3: schema.org questions anywhere
SchemaEntry(question, answer) ==
    IF question # <<>> /\ answer # <<>> THEN <<QuestionAnswers(question, answer)>> ELSE <<>>
Method3Of(soup, question_elem, answer_elem) ==
    IF question_elem = 0 \/ answer_elem = 0 THEN <<>>
    ELSE SchemaEntry(
             TextOf(soup, question_elem),
             TextOf(soup, OrNode(find(soup, answer_elem, LAMBDA m : AttrIs(soup, m, "itemProp", "text")),
                                 answer_elem)))
Method3(soup, schema_q) ==
    Method3Of(soup,
              OrNode(find(soup, schema_q, LAMBDA m : AttrIs(soup, m, "itemProp", "name")),
                     find(soup, schema_q, LAMBDA m : Named(soup, m, {"h3", "h4", "h5", "h6"}))),
              find(soup, schema_q, LAMBDA m : AttrIs(soup, m, "itemType", SchemaAnswer)))
Method3All(soup, schema_questions) ==
    Concat([k \in 1..Len(schema_questions) |-> Method3(soup, schema_questions[k])])

\* The section's part of the function: the exception of an item with
\* neither question nor body, else the entries of the accordion items, of
\* the headings, of method 3, the first that has any
SectionFaqs(soup, faq_section, section_accordions, faqs3) ==
    IF \E k \in 1..Len(section_accordions) : Raises2(soup, section_accordions[k])
    THEN Raised("AttributeError")
    ELSE List(OrSeq(OrSeq(Method2All(soup, section_accordions),
                          FallbackAll(soup, find_all(soup, faq_section,
                              LAMBDA m : Named(soup, m, {"h3", "h4", "h5", "h6", "strong", "b"})))),
                    faqs3))
FaqsOf(soup, faqs1, faq_section, faqs3) ==
    IF faqs1 # <<>> THEN List(faqs1)
    ELSE IF faq_section = 0 THEN List(faqs3)
    ELSE SectionFaqs(soup, faq_section,
                     find_all(soup, faq_section, LAMBDA m : IsAccordionItem(soup, m)), faqs3)

extract_faqs(soup) ==
    FaqsOf(soup,
           Method1All(soup, find_all(soup, 1, LAMBDA m : IsAccordionItem(soup, m))),
           OrNode(extract_section_by_heading(soup, <<"FAQ">>),
           OrNode(extract_section_by_heading(soup, <<"Frequently", " ", "Asked", " ", "Questions">>),
           OrNode(find(soup, 1, LAMBDA m : Named(soup, m, {"div"}) /\ IdHas(soup, m, "faq")),
                  find(soup, 1, LAMBDA m : Named(soup, m, {"section"}) /\ IdHas(soup, m, "faq"))))),
           Method3All(soup, find_all(soup, 1, LAMBDA m : AttrIs(soup, m, "itemType", SchemaQuestion))))

----------------------------------------------------------------------------
(* Sections and list extractors (app/scraper/parser.py, chittorgarh.py) *)

Map(F(_), s) == [k \in 1..Len(s) |-> F(s[k])]
Tags(soup, n, names) == find_all(soup, n, LAMBDA m : Named(soup, m, names))
FirstTagIn(soup, n, names) == find(soup, n, LAMBDA m : Named(soup, m, names))
Texts(soup, nodes) == Map(LAMBDA e : clean_text(get_text(soup, e)), nodes)
\* [clean_text(td.get_text()) for td in tr.find_all("td")]
TdTexts(soup, tr) == Texts(soup, Tags(soup, tr, {"td"}))
NonEmpty(ts) == SelectSeq(ts, LAMBDA t : t # <<>>)
\* any(h in text for h in needles)
InAny(needles, text) == \E k \in 1..Len(needles) : In(needles[k], text)

\* app.utils.normalizers.parse_int
IntFrom(s, p) == IF p = 0 THEN None ELSE PyInt(DigitsToNat(SubSeq(s, p, DigitRunEnd(s, p))))
IntIn(s) == IntFrom(s, FirstDigitFrom(s, 1))
parse_int(value) == IF ~Truthy(value) THEN None ELSE IntIn(RemoveCommas(value.v))

\* The nearest ancestor below body that holds an address, an ordered list,
\* a registrar list or a table
RECURSIVE CardAbove(_, _)
CardAbove(soup, p) ==
    IF p = 0 THEN 0
    ELSE IF soup[p].tag = "body" THEN 0
    ELSE IF \/ FirstTagIn(soup, p, {"address"}) # 0
            \/ FirstTagIn(soup, p, {"ol"}) # 0
            \/ find(soup, p, LAMBDA m : Named(soup, m, {"ul"}) /\ HasClass(soup, m, "registrar")) # 0
            \/ FirstTagIn(soup, p, {"table"}) # 0
         THEN p
    ELSE CardAbove(soup, soup[p].parent)

\* The card of a heading: the ancestor found, or the parent of the heading
CardOf(soup, h) == IF h = 0 THEN 0 ELSE OrNode(CardAbove(soup, soup[h].parent), soup[h].parent)
find_card_by_heading(soup, headings) ==
    CardOf(soup, First(SelectSeq(Tags(soup, 1, {"h2", "h3"}),
                                 LAMBDA x : InAny(Map(Lower, headings),
                                                  Lower(clean_text(get_text(soup, x)))))))

extract_list(soup, section) ==
    IF section = 0 THEN <<>> ELSE Texts(soup, Tags(soup, section, {"li"}))

\* extract_list(section), or the non-empty paragraphs when it is empty
ListOr(soup, section, listed) ==
    IF listed # <<>> THEN listed ELSE NonEmpty(Texts(soup, Tags(soup, section, {"p"})))
ListOrParagraphs(soup, section) == ListOr(soup, section, extract_list(soup, section))

\* find_card_by_heading(a, b) or extract_section_by_heading(a) or
\* extract_section_by_heading(b) or soup.find("div", id has needle)
NarrativeSection(soup, a, b, needle) ==
    OrNode(find_card_by_heading(soup, <<a, b>>),
    OrNode(extract_section_by_heading(soup, a),
    OrNode(extract_section_by_heading(soup, b),
           find(soup, 1, LAMBDA m : Named(soup, m, {"div"}) /\ IdHas(soup, m, needle)))))

\* The list of a section, [] when the section is absent
SectionList(soup, section) ==
    IF section = 0 THEN List(<<>>) ELSE List(ListOrParagraphs(soup, section))
\* The list of a section, None when the section is absent
SectionListOrNone(soup, section) ==
    IF section = 0 THEN None ELSE List(ListOrParagraphs(soup, section))

\* The section list that gives None, not the empty list, for an absent section
NarrativeListOrNone(soup, a, b, needle) ==
    SectionListOrNone(soup, NarrativeSection(soup, a, b, needle))

NarrativeList(soup, a, b, needle) == SectionList(soup, NarrativeSection(soup, a, b, needle))

extract_weaknesses(soup) == NarrativeList(soup, <<"Weaknesses">>, <<"Weakness">>, "weakness")
extract_opportunities(soup) == NarrativeList(soup, <<"Opportunities">>, <<"Opportunity">>, "opportunity")
extract_threats(soup) == NarrativeList(soup, <<"Threats">>, <<"Threat">>, "threat")

\* soup.find("div", id="ipoSummary") or soup.find("div", id="about-company-section")
SummarySection(soup) ==
    OrNode(find(soup, 1, LAMBDA m : Named(soup, m, {"div"}) /\ IdIs(soup, m, "ipoSummary")),
           find(soup, 1, LAMBDA m : Named(soup, m, {"div"}) /\ IdIs(soup, m, "about-company-section")))

\* "competitive" in t and ("strength" in t or "strenght" in t)
CompetitiveText(t) == In(<<"competitive">>, t) /\ (In(<<"strength">>, t) \/ In(<<"strenght">>, t))
\* p.find_next_sibling("ul") or p.find_next("ul")
UlAfter(soup, p) ==
    OrNode(find_next_sibling(soup, p, LAMBDA m : Named(soup, m, {"ul"})),
           find_next(soup, p, LAMBDA m : Named(soup, m, {"ul"})))
\* The first paragraph of the summary on competitive strengths that is
\* followed by a list, 0 when there is none
CompetitiveParagraph(soup, section) ==
    IF section = 0 THEN 0
    ELSE First(SelectSeq(Tags(soup, section, {"p"}),
                         LAMBDA x : CompetitiveText(Lower(get_text(soup, x))) /\ UlAfter(soup, x) # 0))
StrengthsFrom(soup, p) ==
    IF p # 0 THEN List(NonEmpty(Texts(soup, Tags(soup, UlAfter(soup, p), {"li"}))))
    ELSE SectionList(soup, OrNode(extract_section_by_heading(soup, <<"Strengths">>),
                                  extract_section_by_heading(soup, <<"Strength">>)))
extract_strengths(soup) == StrengthsFrom(soup, CompetitiveParagraph(soup, SummarySection(soup)))

\* next((i for i, h in enumerate(headers) if P(h)), default), counted from 1
IndexWhere(headers, P(_), default) ==
    LET hits == {k \in 1..Len(headers) : P(headers[k])}
    IN IF hits = {} THEN default + 1 ELSE CHOOSE k \in hits : \A k2 \in hits : k <= k2

Max3(a, b, c) == IF a >= b /\ a >= c THEN a ELSE IF b >= c THEN b ELSE c
\* x or 0, for a parsed number
OrZero(x) == IF Truthy(x) THEN x ELSE PyInt(0)

\* soup.find("table", id has "objective"), else the table of the card
ObjectiveTable(soup, by_id, card) ==
    IF by_id # 0 THEN by_id
    ELSE IF card # 0 THEN FirstTagIn(soup, card, {"table"})
    ELSE 0
\* objectives.append(Objective(sno or len(objectives) + 1, desc, amt or 0))
ObjectiveEntry(out, desc, sno, amt) ==
    Append(out, [sno |-> IF Truthy(sno) THEN sno ELSE PyInt(Len(out) + 1),
                 description |-> desc,
                 amount_crore |-> OrZero(amt)])
\* One row of the table: skipped when short or without a description
ObjectiveRow(out, cells, sni, desci, amti) ==
    IF Len(cells) < Max3(sni, desci, amti) THEN out
    ELSE IF cells[desci] = <<>> THEN out
    ELSE ObjectiveEntry(out, cells[desci], parse_int(Str(cells[sni])), parse_float(Str(cells[amti])))
\* The objectives of rows 2..k
RECURSIVE ObjectiveRows(_, _, _, _, _, _)
ObjectiveRows(soup, rows, k, sni, desci, amti) ==
    IF k <= 1 THEN <<>>
    ELSE ObjectiveRow(ObjectiveRows(soup, rows, k - 1, sni, desci, amti), TdTexts(soup, rows[k]),
                      sni, desci, amti)
ObjectivesUnder(soup, rows, headers) ==
    ObjectiveRows(soup, rows, Len(rows),
                  IndexWhere(headers, LAMBDA h : h = <<"#">> \/ In(<<"sno">>, h), 0),
                  IndexWhere(headers, LAMBDA h : In(<<"object">>, h) \/ In(<<"desc">>, h), 1),
                  IndexWhere(headers,
                             LAMBDA h : In(<<"amt">>, h) \/ In(<<"amount">>, h) \/ In(<<"cr">>, h), 2))
ObjectivesOfRows(soup, rows) ==
    IF Len(rows) < 2 THEN List(<<>>)
    ELSE List(ObjectivesUnder(soup, rows, Map(Lower, Texts(soup, Tags(soup, rows[1], {"th"})))))
ObjectivesOfTable(soup, table) ==
    IF table = 0 THEN List(<<>>) ELSE ObjectivesOfRows(soup, Tags(soup, table, {"tr"}))
extract_objectives(soup) ==
    ObjectivesOfTable(soup,
        ObjectiveTable(soup,
            find(soup, 1, LAMBDA m : Named(soup, m, {"table"}) /\ IdHas(soup, m, "objective")),
            find_card_by_heading(soup, <<<<"Objects", " ", "of", " ", "the", " ", "Issue">>,
                                         <<"Objects">>>>)))

\* extract_table_data(soup, table_id): the rows after the first as
\* dictionaries from header text to cell text
TableRows(soup, rows, headers) ==
    SelectSeq([k \in 1..(Len(rows) - 1) |-> [headers |-> headers, cells |-> TdTexts(soup, rows[k + 1])]],
              LAMBDA r : r.cells # <<>>)
TableDataOfRows(soup, rows) ==
    IF rows = <<>> THEN <<>>
    ELSE TableRows(soup, rows, Texts(soup, Tags(soup, rows[1], {"th", "td"})))
TableData(soup, table) ==
    IF table = 0 THEN <<>> ELSE TableDataOfRows(soup, Tags(soup, table, {"tr"}))
extract_table_data(soup, table_id) ==
    TableData(soup, find(soup, 1, LAMBDA m : Named(soup, m, {"table"}) /\ IdIs(soup, m, table_id)))

\* row.get(key) on dict(zip(headers, cells)): the cell under the last header
\* with that text, None when there is none
Smaller(a, b) == IF a <= b THEN a ELSE b
CellUnder(row, k) == IF k = 0 THEN None ELSE Str(row.cells[k])
RowGet(row, key) ==
    CellUnder(row, Greatest({k \in 1..Smaller(Len(row.headers), Len(row.cells)) :
                                 row.headers[k] = key}))

\* parse_float(x) or 0
FloatOrZero(x) == OrZero(parse_float(x))

\* (row.get("Company Name") or row.get("company") or "").strip()
PeerCompany(row) ==
    Strip(Or(Or(RowGet(row, <<"Company", " ", "Name">>), RowGet(row, <<"company">>)), Str(<<>>)).v)
Peer(row) ==
    [company |-> PeerCompany(row),
     eps_basic |-> FloatOrZero(RowGet(row, <<"EPS", " ", "(", "Basic", ")">>)),
     eps_diluted |-> FloatOrZero(RowGet(row, <<"EPS", " ", "(", "Diluted", ")">>)),
     nav |-> FloatOrZero(Or(RowGet(row, <<"NAV", " ", "(", Rupee, " ", "per", " ", "share", ")">>),
                            RowGet(row, <<"NAV">>))),
     pe |-> FloatOrZero(Or(RowGet(row, <<"P", "/", "E">>), RowGet(row, <<"PE">>))),
     ronw |-> FloatOrZero(Or(Or(RowGet(row, <<"RoNW">>), RowGet(row, <<"RONW">>)),
                             RowGet(row, <<"RoNW", " ", "(", "%", ")">>)))]
PeersOf(table, data) ==
    IF table = 0 THEN List(<<>>)
    ELSE List(Map(Peer, SelectSeq(data, LAMBDA row : PeerCompany(row) # <<>>)))
extract_peers(soup) ==
    PeersOf(find(soup, 1, LAMBDA m : Named(soup, m, {"table"}) /\ IdIs(soup, m, "analysisTable")),
            extract_table_data(soup, "analysisTable"))

\* re.search(r"(\d+\.?\d*)\s*%", val): the number of the leftmost match as a
\* float, None when nothing matches
RECURSIVE PercentFrom(_, _)
\* blanks and "%" follow position e
AtPercent(s, e) == SkipSpaces(s, e + 1) <= Len(s) /\ s[SkipSpaces(s, e + 1)] = "%"
\* the end of digits "." digits* for a run of digits ending at q
PointEnd(s, q) ==
    IF q + 1 <= Len(s) /\ s[q + 1] = "."
    THEN (IF q + 2 <= Len(s) /\ IsDigit(s[q + 2]) THEN DigitRunEnd(s, q + 2) ELSE q + 1)
    ELSE q
PercentAt(s, d, q, r) ==
    IF AtPercent(s, r) THEN Num(ToFloat(SubSeq(s, d, r)))
    ELSE IF AtPercent(s, q) THEN Num(ToFloat(SubSeq(s, d, q)))
    ELSE PercentFrom(s, d + 1)
PercentRun(s, d, q) == PercentAt(s, d, q, PointEnd(s, q))
PercentDigits(s, d) == IF d = 0 THEN None ELSE PercentRun(s, d, DigitRunEnd(s, d))
PercentFrom(s, p) == PercentDigits(s, FirstDigitFrom(s, p))
SearchPercent(s) == PercentFrom(s, 1)

\* The keys of a reservation, and the key a row label assigns to
ReservationKeys == {"qib", "anchor", "ex_anchor", "nii", "bnii", "snii", "retail", "employee",
                    "shareholder", "other", "total"}
ReservationKey(label) ==
    LET Has(w) == In(<<w>>, label)
    IN IF Has("qib") /\ ~Has("anchor") /\ ~Has("ex") THEN "qib"
       ELSE IF Has("anchor") /\ ~Has("ex") THEN "anchor"
       ELSE IF Has("ex") /\ Has("anchor") THEN "ex_anchor"
       ELSE IF Has("bnii") \/ In(<<"b", "-", "nii">>, label) THEN "bnii"
       ELSE IF Has("snii") \/ In(<<"s", "-", "nii">>, label) THEN "snii"
       ELSE IF Has("nii") \/ Has("hni") THEN "nii"
       ELSE IF Has("retail") THEN "retail"
       ELSE IF Has("employee") THEN "employee"
       ELSE IF Has("shareholder") THEN "shareholder"
       ELSE IF Has("total") THEN "total"
       ELSE "none"

\* r[key]: the percentage of the last row of that key, 0 without one
\* The value of r[key] before "v or 0": None without a row or a percentage
ReservedOrNone(rows, k) == IF k = 0 THEN None ELSE SearchPercent(rows[k][2])
ReservedIn(rows, k) == IF k = 0 THEN PyInt(0) ELSE OrZero(SearchPercent(rows[k][2]))
Reserved(rows, key) ==
    ReservedIn(rows, Greatest({k \in 1..Len(rows) : ReservationKey(Lower(rows[k][1])) = key}))
ReservationsOfTable(soup, tbl) ==
    IF tbl = 0 THEN List(<<>>)
    ELSE List(<<[key \in ReservationKeys |->
                    Reserved(SelectSeq(Map(LAMBDA tr : TdTexts(soup, tr), Tags(soup, tbl, {"tr"})),
                                       LAMBDA cells : Len(cells) >= 2),
                             key)]>>)
ReservationsOfCard(soup, card) ==
    IF card = 0 THEN List(<<>>) ELSE ReservationsOfTable(soup, FirstTagIn(soup, card, {"table"}))
extract_reservations(soup) ==
    ReservationsOfCard(soup, find_card_by_heading(soup, <<<<"IPO", " ", "Reservation">>,
                                                           <<"Reservation">>>>))

\* sep.join(parts)
RECURSIVE Join(_, _)
Join(sep, parts) ==
    IF parts = <<>> THEN <<>>
    ELSE IF Len(parts) = 1 THEN parts[1]
    ELSE parts[1] \o sep \o Join(sep, Tail(parts))

\* text.split(sep) for a one-atom separator
RECURSIVE Split(_, _)
SplitAt(sep, s, cut) ==
    IF cut = 0 THEN <<s>>
    ELSE <<SubSeq(s, 1, cut - 1)>> \o Split(sep, SubSeq(s, cut + 1, Len(s)))
Split(sep, s) == SplitAt(sep, s, IndexOf(<<sep>>, s))

\* s.replace(old, "")
RECURSIVE Remove(_, _)
RemoveAt(old, s, cut) ==
    IF cut = 0 THEN s
    ELSE SubSeq(s, 1, cut - 1) \o Remove(old, SubSeq(s, cut + Len(old), Len(s)))
Remove(old, s) == RemoveAt(old, s, IndexOf(old, s))

\* s.startswith("http"), for a link target
StartsWithHttp(h) == h # <<>> /\ h[1] \in {"http", "http:", "https:"}

\* re.search(r"[\d\s\+\-\(\)]+", part): the leftmost longest run of digits,
\* blanks, signs and brackets, stripped; <<>> when there is none
PhoneChars == Digits \cup {" ", "+", "-", "(", ")"}
RECURSIVE PhoneRunEnd(_, _)
PhoneRunEnd(s, p) == IF p + 1 <= Len(s) /\ s[p + 1] \in PhoneChars THEN PhoneRunEnd(s, p + 1) ELSE p
PhoneRunFrom(part, p) == IF p = 0 THEN <<>> ELSE Strip(SubSeq(part, p, PhoneRunEnd(part, p)))
PhoneRun(part) == PhoneRunFrom(part, Least({p \in 1..Len(part) : part[p] \in PhoneChars}))

\* " ".join(icon.get("class", [])) holds the word
IconHas(soup, icon, word) == icon # 0 /\ HasClass(soup, icon, word)

\* li.find("i", class_=True) and li.find("a", href=True)
LiIcon(soup, li) ==
    find(soup, li, LAMBDA m : Named(soup, m, {"i"}) /\ HasAttr(soup, m, "class")
                              /\ soup[m].at.class # <<>>)
LiLink(soup, li) == find(soup, li, LAMBDA m : Named(soup, m, {"a"}) /\ HasAttr(soup, m, "href"))
LinkTarget(soup, link) == IF link # 0 THEN soup[link].at.href ELSE <<>>
\* The text taken as one number, the commas not split on
PhonesUnsplit(text) == SelectSeq(<<PhoneRun(Strip(text))>>, LAMBDA m : CharLen(m) >= 8)
\* the phone numbers of a text: the runs of eight characters or more
Phones(text) ==
    SelectSeq(Map(LAMBDA part : PhoneRun(Strip(part)), Split(",", text)), LAMBDA m : CharLen(m) >= 8)
NoRegistrarInfo == [phone_numbers |-> <<>>, email |-> <<>>, website |-> <<>>]
\* One li of the loop: an email, else phone numbers, else a website
RegistrarLi(soup, prev, icon, link, text, href) ==
    IF IconHas(soup, icon, "envelope") \/ In(<<"@">>, text)
    THEN [prev EXCEPT !.email =
             IF In(<<"@">>, text) THEN text
             ELSE IF link # 0 /\ In(<<"mailto:">>, href) THEN Remove(<<"mailto:">>, href)
             ELSE prev.email]
    ELSE IF IconHas(soup, icon, "phone")
    THEN [prev EXCEPT !.phone_numbers = prev.phone_numbers \o Phones(text)]
    ELSE IF (IconHas(soup, icon, "globe") \/ link # 0) /\ link # 0 /\ StartsWithHttp(href)
    THEN [prev EXCEPT !.website = href]
    ELSE prev
LinkedLi(soup, prev, li, link) ==
    RegistrarLi(soup, prev, LiIcon(soup, li), link, clean_text(get_text(soup, li)),
                LinkTarget(soup, link))
RECURSIVE RegistrarLis(_, _, _)
RegistrarLis(soup, lis, k) ==
    IF k = 0 THEN NoRegistrarInfo
    ELSE LinkedLi(soup, RegistrarLis(soup, lis, k - 1), lis[k], LiLink(soup, lis[k]))
AllRegistrarLis(soup, lis) == RegistrarLis(soup, lis, Len(lis))
parse_registrar_info_ul(soup, ul) ==
    IF ul = 0 THEN NoRegistrarInfo ELSE AllRegistrarLis(soup, Tags(soup, ul, {"li"}))

RegistrarInfoUl(soup, card) ==
    find(soup, card, LAMBDA m : Named(soup, m, {"ul"}) /\ HasClass(soup, m, "registrar-info"))

\* The text of the strong element without the word Address
ContactName(soup, strong) ==
    IF strong = 0 THEN <<>>
    ELSE Strip(Remove(<<"Address">>, Remove(<<" ", "Address">>, clean_text(get_text(soup, strong)))))
\* not div.find("ul") and not div.find("strong")
PlainDiv(soup, d) == FirstTagIn(soup, d, {"ul"}) = 0 /\ FirstTagIn(soup, d, {"strong"}) = 0
AddressParts(soup, card, name) ==
    SelectSeq(Texts(soup, SelectSeq(Tags(soup, card, {"div"}), LAMBDA d : PlainDiv(soup, d))),
              LAMBDA t : /\ t # <<>> /\ 2 < CharLen(t) /\ CharLen(t) < 150
                         /\ ~In(<<"@">>, t) /\ ~In(<<"http">>, Lower(t)) /\ t # name)
ContactInfo(name, addr_parts, info) ==
    [name |-> name,
     address |-> Join(<<",", " ">>, addr_parts),
     phone |-> Join(<<",", " ">>, info.phone_numbers),
     email |-> info.email,
     website |-> info.website]
\* if name or address or email or phone: one contact
ContactsOf(contact_info) ==
    IF contact_info.name # <<>> \/ contact_info.address # <<>> \/ contact_info.email # <<>>
       \/ contact_info.phone # <<>>
    THEN List(<<contact_info>>)
    ELSE List(<<>>)
ContactsNamed(soup, card, name) ==
    ContactsOf(ContactInfo(name, AddressParts(soup, card, name),
                           parse_registrar_info_ul(soup, RegistrarInfoUl(soup, card))))
ContactsOfCard(soup, card) ==
    IF card = 0 THEN List(<<>>)
    ELSE ContactsNamed(soup, card, ContactName(soup, FirstTagIn(soup, card, {"strong"})))
extract_company_contacts(soup) ==
    ContactsOfCard(soup, find_card_by_heading(soup, <<<<"Contact", " ", "Details">>, <<"Contact">>>>))

\* re.split on the separator patterns of the list extractors.  A separator
\* that starts at p ends at SepEnd(mode, s, p); 0 when none starts there.
\*   "and"        \s+and\s+
\*   "products"   ,\s*and\s+ | \s+and\s+ | ,
\*   "services"   ,\s+ | \s+and\s+
\*   "table"      [,;]\s* | \s+and\s+
\*   "ncd"        \s+and\s+ | \s*,\s*
\* and\s+ at a: its end, 0 when it is not there
AndAfter(s, a) ==
    IF a + 1 <= Len(s) /\ s[a] = "and" /\ IsSpace(s[a + 1]) THEN SkipSpaces(s, a + 1) - 1 ELSE 0
AndEnd(s, p) == IF IsSpace(s[p]) THEN AndAfter(s, SkipSpaces(s, p)) ELSE 0
\* a comma at p, with and after it or alone
CommaAnd(p, e) == IF e # 0 THEN e ELSE p
\* \s*,\s* when \s+and\s+ does not match, c the position after the blanks
OrComma(s, e, c) ==
    IF e # 0 THEN e
    ELSE IF c <= Len(s) /\ s[c] = "," THEN SkipSpaces(s, c + 1) - 1
    ELSE 0
SepEnd(mode, s, p) ==
    CASE mode = "and" -> AndEnd(s, p)
      [] mode = "products" ->
           IF s[p] # "," THEN AndEnd(s, p) ELSE CommaAnd(p, AndAfter(s, SkipSpaces(s, p + 1)))
      [] mode = "services" ->
           IF s[p] = "," /\ SkipSpaces(s, p + 1) > p + 1 THEN SkipSpaces(s, p + 1) - 1
           ELSE AndEnd(s, p)
      [] mode = "table" ->
           IF s[p] \in {",", ";"} THEN SkipSpaces(s, p + 1) - 1 ELSE AndEnd(s, p)
      [] mode = "ncd" -> OrComma(s, AndEnd(s, p), SkipSpaces(s, p))
RECURSIVE SplitFrom(_, _, _, _)
\* a separator from p to e: the piece before it, and the pieces after it
SplitOn(mode, s, from, p, e) ==
    IF e # 0 THEN <<SubSeq(s, from, p - 1)>> \o SplitFrom(mode, s, e + 1, e + 1)
    ELSE SplitFrom(mode, s, from, p + 1)
\* the pieces of s from position p on, the current piece starting at from
SplitFrom(mode, s, from, p) ==
    IF p > Len(s) THEN <<SubSeq(s, from, Len(s))>>
    ELSE SplitOn(mode, s, from, p, SepEnd(mode, s, p))
ReSplit(mode, s) == SplitFrom(mode, s, 1, 1)

\* The position after the words matched at p (compared in lower case, one
\* blank between them, or any run of blanks when flex); 0 when they do not
\* match there
RECURSIVE MatchWords(_, _, _, _)
MatchWords(wds, low, p, flex) ==
    IF p > Len(low) THEN 0
    ELSE IF low[p] # Head(wds) THEN 0
    ELSE IF Len(wds) = 1 THEN p + 1
    ELSE IF p + 1 > Len(low) THEN 0
    ELSE IF ~IsSpace(low[p + 1]) THEN 0
    ELSE MatchWords(Tail(wds), low, IF flex THEN SkipSpaces(low, p + 1) ELSE p + 2, flex)

\* re.search(words + r"\s+(...)", text, re.I): the text after the first
\* occurrence of the words and the blanks that follow; None when the words
\* do not occur followed by a blank
BlankAt(text, e) == e # 0 /\ e <= Len(text) /\ IsSpace(text[e])
AfterAt(wds, text, low, flex, p) ==
    IF p = 0 THEN None
    ELSE Str(SubSeq(text, SkipSpaces(text, MatchWords(wds, low, p, flex)), Len(text)))
AfterLow(wds, text, low, flex) ==
    AfterAt(wds, text, low, flex,
            Least({p \in 1..Len(text) : BlankAt(text, MatchWords(wds, low, p, flex))}))
AfterWords(wds, text, flex) == AfterLow(wds, text, Lower(text), flex)

\* Of two matches of a pattern with an optional letter, the one further left
Leftmost(a, b) ==
    IF IsNone(a) THEN b
    ELSE IF IsNone(b) THEN a
    ELSE IF Len(a.v) >= Len(b.v) THEN a ELSE b

\* ([^.]+?)(?:\.|$) and ([^.]+?)(?:\.|,|$): the text before the first stop
Until(s, p) == IF p = 0 THEN s ELSE SubSeq(s, 1, p - 1)
UpToStop(s, stops) == Until(s, Least({p \in 1..Len(s) : s[p] \in stops}))

\* The pieces of a split, cleaned, those longer than two characters
ProductParts(group) ==
    SelectSeq(Map(clean_text, ReSplit("products", group)), LAMBDA t : t # <<>> /\ CharLen(t) > 2)
ProductsIn(group) == IF group = <<>> THEN <<>> ELSE ProductParts(group)
\* "production of X." and "primary product(s) is X"
ProductsMade(production) ==
    IF IsNone(production) THEN <<>> ELSE ProductsIn(UpToStop(production.v, {"."}))
ProductsMain(primary) ==
    IF IsNone(primary) THEN <<>> ELSE ProductsIn(UpToStop(primary.v, {".", ","}))
MadeOrMain(text, made) ==
    IF made # <<>> THEN List(made)
    ELSE List(ProductsMain(Leftmost(AfterWords(<<"primary", "product", "is">>, text, TRUE),
                                    AfterWords(<<"primary", "products", "is">>, text, TRUE))))
ProductsAbout(soup, ab) ==
    IF ab = 0 THEN List(<<>>)
    ELSE MadeOrMain(get_text(soup, ab),
                    ProductsMade(AfterWords(<<"production", "of">>, get_text(soup, ab), FALSE)))
ProductsListed(soup, section) == IF section = 0 THEN <<>> ELSE ListOrParagraphs(soup, section)
ProductsOr(soup, listed) ==
    IF listed # <<>> THEN List(listed) ELSE ProductsAbout(soup, SummarySection(soup))
extract_products(soup) ==
    ProductsOr(soup, ProductsListed(soup, NarrativeSection(soup, <<"Products">>, <<"Product">>,
                                                           "product")))

\* ([^.]+\.?): the text up to and including the first full stop
Through(s, p) == IF p = 0 THEN s ELSE SubSeq(s, 1, p)
ThroughStop(s) == Through(s, Least({p \in 1..Len(s) : s[p] = "."}))

\* str.lstrip("and "): the leading characters a, n, d and blank go
RECURSIVE LStripWord(_)
LStripWord(a) ==
    IF Len(a) = 0 THEN a
    ELSE IF Head(a) \in {"a", "n", "d", " "} THEN LStripWord(Tail(a))
    ELSE a
RECURSIVE LStripAnd(_)
LStripAnd(t) ==
    IF t = <<>> THEN <<>>
    ELSE IF Len(LStripWord(Head(t))) = 0 THEN LStripAnd(Tail(t))
    ELSE <<LStripWord(Head(t))>> \o Tail(t)
RECURSIVE RStripStops(_)
RStripStops(t) ==
    IF t = <<>> THEN <<>>
    ELSE IF t[Len(t)] \in {".", ","} THEN RStripStops(SubSeq(t, 1, Len(t) - 1))
    ELSE t

ServiceExclude ==
    <<<<"Broker">>, <<"Zerodha">>, <<"Angel", " ", "One">>, <<"Kotak">>, <<"Motilal">>,
      <<"Upstox">>, <<"5", "Paisa">>, <<"More", " ", "Brokers">>, <<"Report">>, <<"Review">>,
      <<"Indiabulls">>, <<"Full", " ", "Service">>, <<"Full", "-", "Service">>>>

\* clean_text(part).lstrip("and ").rstrip(".,")
TrimService(part) == RStripStops(LStripAnd(clean_text(part)))
\* Method 1: "operations include", "services include", "business include(s)"
ServiceBlock(text) ==
    Or(AfterWords(<<"operations", "include">>, text, TRUE),
    Or(AfterWords(<<"services", "include">>, text, TRUE),
       Leftmost(AfterWords(<<"business", "include">>, text, TRUE),
                AfterWords(<<"business", "includes">>, text, TRUE))))
ServicesIn(block) ==
    IF IsNone(block) THEN <<>>
    ELSE SelectSeq(Map(TrimService, ReSplit("services", ThroughStop(block.v))),
                   LAMBDA t : /\ t # <<>>
                              /\ 10 < CharLen(t)
                              /\ CharLen(t) < 250
                              /\ ~InAny(ServiceExclude, t))
ServicesNamed(soup, ab) == IF ab = 0 THEN <<>> ELSE ServicesIn(ServiceBlock(get_text(soup, ab)))
\* Method 2: the section of services, unless its heading is about brokers
ServiceSection(soup) ==
    OrNode(find_card_by_heading(soup, <<<<"Services">>, <<"Service">>, <<"Business">>>>),
    OrNode(extract_section_by_heading(soup, <<"Services">>),
    OrNode(extract_section_by_heading(soup, <<"Service">>),
           find(soup, 1, LAMBDA m : Named(soup, m, {"div"}) /\ IdHas(soup, m, "service")))))
HeadingText(soup, h) == IF h = 0 THEN <<>> ELSE Lower(get_text(soup, h))
KeptServices(ts) == SelectSeq(ts, LAMBDA t : t # <<>> /\ ~InAny(ServiceExclude, t))
ItemsOr(soup, section, lis) ==
    IF lis # <<>> THEN List(lis) ELSE List(KeptServices(Texts(soup, Tags(soup, section, {"p"}))))
ServicesUnder(soup, section, ht) ==
    IF In(<<"broker">>, ht) \/ In(<<"full", "-", "service">>, ht) \/ In(<<"full", " ", "service">>, ht)
    THEN List(<<>>)
    ELSE ItemsOr(soup, section, KeptServices(Texts(soup, Tags(soup, section, {"li"}))))
ServicesOfSection(soup, section) ==
    IF section = 0 THEN List(<<>>)
    ELSE ServicesUnder(soup, section,
             HeadingText(soup, OrNode(find(soup, section,
                                           LAMBDA m : Named(soup, m, {"h2", "h3", "h4"})),
                                      find_previous(soup, section,
                                                    LAMBDA m : Named(soup, m, {"h2", "h3", "h4"})))))
ServicesOr(soup, named) ==
    IF named # <<>> THEN List(named) ELSE ServicesOfSection(soup, ServiceSection(soup))
extract_services(soup) == ServicesOr(soup, ServicesNamed(soup, SummarySection(soup)))

\* "are the company promoter" in t.lower()
PromoterPhrase == <<"are", " ", "the", " ", "company", " ", "promoter">>
\* re.search(r"(.+?)\s+are the company promoters?\.?", t, re.I | re.S).group(1)
\* for a cleaned text, None when nothing matches
PhraseAt(t, low, q) ==
    /\ q + Len(PromoterPhrase) <= Len(t)
    /\ IsSpace(t[q])
    /\ \A j \in 1..(Len(PromoterPhrase) - 1) : low[q + j] = PromoterPhrase[j]
    /\ \/ low[q + Len(PromoterPhrase)] = "promoter"
       \/ WordStart("promoter", low[q + Len(PromoterPhrase)])
ClauseUpTo(t, q) == IF q = 0 THEN None ELSE Str(SubSeq(t, 1, q - 1))
ClauseBefore(t, low) == ClauseUpTo(t, Least({q \in 2..Len(t) : PhraseAt(t, low, q)}))
PromoterClause(t) == ClauseBefore(t, Lower(t))

PromoterSkip ==
    <<<<"rs", ".">>, <<"lakh">>, <<"mines">>, <<"product">>, <<"operations">>,
      <<"square", " ", "kilometre">>, <<"tonnes">>, <<"ipo", " ">>, <<"apply">>, <<"investor">>>>

\* Method 1: the parts of "X and Y are the company promoters" in a compact
\* element, <<>> when the element is passed over
HeadOrEmpty(r) == IF r = <<>> THEN <<>> ELSE r[1]
AndParts(rest) == NonEmpty(Map(clean_text, ReSplit("and", rest)))
OkParts(parts) ==
    IF /\ parts # <<>>
       /\ \A k \in 1..Len(parts) :
              ~InAny(PromoterSkip, Lower(parts[k])) /\ CharLen(parts[k]) <= 120
    THEN parts
    ELSE <<>>
RestParts(rest) == IF CharLen(rest) > 400 THEN <<>> ELSE OkParts(AndParts(rest))
ClauseParts(m) == IF IsNone(m) THEN <<>> ELSE RestParts(clean_text(m.v))
CompactParts(t) ==
    IF ~In(PromoterPhrase, Lower(t)) \/ CharLen(t) > 500 THEN <<>> ELSE ClauseParts(PromoterClause(t))
Method1Parts(soup, tags) ==
    HeadOrEmpty(NonEmpty([k \in 1..Len(tags) |-> CompactParts(TextOf(soup, tags[k]))]))

\* Method 2: the list of the promoter section, else its paragraphs up to
\* the one with the phrase, else its short div texts
PromoterSection(soup) ==
    OrNode(find_card_by_heading(soup, <<<<"Company", " ", "Promoter">>, <<"Promoters">>,
                                        <<"Promoter">>>>),
    OrNode(extract_section_by_heading(soup, <<"Promoters">>),
    OrNode(extract_section_by_heading(soup, <<"Promoter">>),
           find(soup, 1, LAMBDA m : Named(soup, m, {"div"}) /\ IdHas(soup, m, "promoter")))))
ClauseStep(prev, m) ==
    IF IsNone(m) THEN prev
    ELSE [list |-> prev.list \o SelectSeq(Map(clean_text, ReSplit("and", clean_text(m.v))),
                                          LAMBDA x : x # <<>> /\ CharLen(x) > 2),
          returned |-> TRUE]
\* One paragraph of the loop: the list so far, and whether the function
\* has returned it
ParagraphStep(prev, t) ==
    IF prev.returned THEN prev
    ELSE IF t # <<>> /\ In(PromoterPhrase, Lower(t)) THEN ClauseStep(prev, PromoterClause(t))
    ELSE IF t # <<>> /\ CharLen(t) > 5 /\ CharLen(t) < 300
         THEN [prev EXCEPT !.list = Append(prev.list, t)]
    ELSE prev
RECURSIVE Paragraphs(_, _)
Paragraphs(ps, k) ==
    IF k = 0 THEN [list |-> <<>>, returned |-> FALSE]
    ELSE ParagraphStep(Paragraphs(ps, k - 1), ps[k])
AllParagraphs(ps) == Paragraphs(ps, Len(ps))
FromParagraphs(soup, section, from_p) ==
    IF from_p.returned \/ from_p.list # <<>> THEN from_p
    ELSE [list |-> SelectSeq(Texts(soup, Tags(soup, section, {"div"})),
                             LAMBDA t : t # <<>> /\ 10 < CharLen(t) /\ CharLen(t) < 200),
          returned |-> FALSE]
FromList(soup, section, listed) ==
    IF listed # <<>> THEN [list |-> listed, returned |-> FALSE]
    ELSE FromParagraphs(soup, section, AllParagraphs(Texts(soup, Tags(soup, section, {"p"}))))
InSection(soup, section) ==
    IF section = 0 THEN [list |-> <<>>, returned |-> FALSE]
    ELSE FromList(soup, section, extract_list(soup, section))

\* Method 3: the table cell labeled Promoter
InTable(pt) == IF Truthy(pt) THEN NonEmpty(Map(clean_text, ReSplit("table", pt.v))) ELSE <<>>
PromotersBelow(soup, in_section) ==
    IF in_section.returned \/ in_section.list # <<>> THEN List(in_section.list)
    ELSE List(InTable(get_value_by_label_contains(soup, <<"Promoter">>)))
PromotersFrom(soup, parts) ==
    IF parts # <<>> THEN List(parts)
    ELSE PromotersBelow(soup, InSection(soup, PromoterSection(soup)))

extract_promoters(soup) ==
    PromotersFrom(soup, Method1Parts(soup, Tags(soup, 1, {"div", "p", "td"})))

LeadManagerExclude ==
    <<<<"List", " ", "of", " ", "Issues">>, <<"No", ".", " ", "of", " ", "Issues">>, <<"Performance">>,
      <<"Report">>, <<"Market", " ", "Maker">>, <<"Registrar">>, <<"Broker", " ", "Report">>,
      <<"IPO", " ", "Report">>>>

\* The items of a sequence without repetitions, the first occurrences kept
RECURSIVE Unique(_)
Unique(s) ==
    IF s = <<>> THEN <<>>
    ELSE LET init == Unique(SubSeq(s, 1, Len(s) - 1))
         IN IF \E k \in 1..Len(init) : init[k] = s[Len(s)] THEN init ELSE Append(init, s[Len(s)])

\* text.split(sep)[0].strip()
UpTo(text, cut) == IF cut = 0 THEN Strip(text) ELSE Strip(SubSeq(text, 1, cut - 1))
Before(sep, text) == UpTo(text, IndexOf(sep, text))

\* Method 1: the ordered list of the section
ManagerName(text) ==
    IF In(<<"A", " ", "(">>, text) THEN Before(<<"A", " ", "(">>, text)
    ELSE IF In(<<"(">>, text) THEN Before(<<"(">>, text)
    ELSE text
IsCompany(text) ==
    \/ text # <<>> /\ CharLen(text) > 3 /\ In(<<"Ltd">>, text)
    \/ In(<<"Limited">>, text)
    \/ In(<<"Securities">>, text)
ManagersIn(soup, ol) ==
    IF ol = 0 THEN <<>>
    ELSE Unique(SelectSeq(Map(ManagerName, SelectSeq(Texts(soup, Tags(soup, ol, {"li"})),
                                                     LAMBDA t : ~InAny(LeadManagerExclude, t))),
                          IsCompany))
ManagersListed(soup, section) ==
    IF section = 0 THEN <<>> ELSE ManagersIn(soup, FirstTagIn(soup, section, {"ol"}))
\* Method 2: the links to lead manager reviews
ManagersLinked(soup) ==
    Unique(SelectSeq(Texts(soup, find_all(soup, 1,
                                          LAMBDA m : /\ Named(soup, m, {"a"})
                                                     /\ HasAttr(soup, m, "href")
                                                     /\ In(<<"/", "ipo", "-", "lead", "-", "manager",
                                                             "-", "review", "/">>, soup[m].at.href))),
                     LAMBDA t : t # <<>> /\ ~InAny(LeadManagerExclude, t)))
\* Method 3: the table cell labeled Lead Manager
ManagersInTable(value) ==
    IF Truthy(value)
    THEN Unique(SelectSeq(NonEmpty(Map(Strip, Split(",", value.v))),
                          LAMBDA t : ~InAny(LeadManagerExclude, t)))
    ELSE <<>>
LinkedOr(soup, linked) ==
    IF linked # <<>> THEN List(linked)
    ELSE List(ManagersInTable(get_value_by_label_contains(soup, <<"Lead", " ", "Manager">>)))
ListedOr(soup, listed) ==
    IF listed # <<>> THEN List(listed) ELSE LinkedOr(soup, ManagersLinked(soup))
extract_lead_managers(soup) ==
    ListedOr(soup, ManagersListed(soup,
                 OrNode(extract_section_by_heading(soup, <<"Lead", " ", "Manager">>),
                        extract_section_by_heading(soup, <<"IPO", " ", "Lead", " ", "Manager">>))))

----------------------------------------------------------------------------
(* List extractors of the NCD scraper (app/scraper/ncd.py) *)

\* re.split(r"[,&]", text)
RECURSIVE SplitAny(_, _)
SplitAnyAt(seps, s, cut) ==
    IF cut = 0 THEN <<s>>
    ELSE <<SubSeq(s, 1, cut - 1)>> \o SplitAny(seps, SubSeq(s, cut + 1, Len(s)))
SplitAny(seps, s) == SplitAnyAt(seps, s, Least({p \in 1..Len(s) : s[p] \in seps}))

\* "BSE" in c.upper() is "bse" in c.lower()
ExchangeName(c) ==
    IF In(<<"bse">>, Lower(c)) THEN <<"BSE">>
    ELSE IF In(<<"nse">>, Lower(c)) THEN <<"NSE">>
    ELSE c
ExchangesIn(exchange_text) ==
    IF ~Truthy(exchange_text) THEN List(<<>>)
    ELSE List(Unique(Map(ExchangeName,
                         NonEmpty(Map(clean_text, SplitAny({",", "&"}, exchange_text.v))))))
ncd_extract_exchanges(soup) ==
    ExchangesIn(Or(Or(Or(get_value_by_label_in_li(soup, <<"Listing", " ", "At">>),
                         get_value_by_label_in_li(soup, <<"Exchange">>)),
                      get_value_by_label_contains(soup, <<"Listing", " ", "At">>)),
                   get_value_by_label_contains(soup, <<"Exchange">>)))

\* str(n) for a natural number
RECURSIVE NatText(_)
NatText(n) ==
    LET d == <<"0", "1", "2", "3", "4", "5", "6", "7", "8", "9">>[(n % 10) + 1]
    IN IF n < 10 THEN <<d>> ELSE Append(NatText(n \div 10), d)

\* The row type a coupon table label selects, "none" when it selects none
CouponRowType(label) ==
    LET Has(w) == In(<<w>>, label)
    IN IF Has("frequency") /\ Has("interest") THEN "freq"
       ELSE IF Has("nature") THEN "nature"
       ELSE IF Has("tenor") THEN "tenor"
       ELSE IF Has("coupon") /\ ~Has("effective") THEN "coupon"
       ELSE IF Has("effective") /\ Has("yield") THEN "eff"
       ELSE IF Has("amount") /\ Has("maturity") THEN "amt"
       ELSE "none"

\* 0.0 if text.upper() == "NA" else (parse_float(text) or 0)
PercentOrZero(text) == IF Lower(text) = <<"na">> THEN Num(Dec(0, 0)) ELSE FloatOrZero(Str(text))

\* The names of the series: the headers after the first, or Series 1..n
SeriesNamed(headers) ==
    SelectSeq(Tail(headers), LAMBDA h : h # <<>> /\ (~In(<<"#">>, h) \/ In(<<"Series">>, h)))
NamedOr(headers, named) ==
    IF named # <<>> THEN named
    ELSE [k \in 1..(Len(headers) - 1) |-> <<"Series", " ">> \o NatText(k)]
SeriesCols(headers) == IF headers = <<>> THEN <<>> ELSE NamedOr(headers, SeriesNamed(headers))
\* (row_map.get(typ) or {}).get(col, ""), the last row of a type counts
CellOf(row, col) == IF col + 1 <= Len(row) THEN row[col + 1] ELSE <<>>
RowOfType(rows, k) == IF k = 0 THEN <<>> ELSE rows[k]
CouponCell(rows, typ, col) ==
    CellOf(RowOfType(rows, Greatest({k \in 1..Len(rows) : CouponRowType(Lower(rows[k][1])) = typ})),
           col)
OrZeroText(t) == IF t = <<>> THEN <<"0">> ELSE t
Series(series_cols, rows, col) ==
    [series_name |-> series_cols[col],
     frequency_of_interest_payment |-> CouponCell(rows, "freq", col),
     nature |-> CouponCell(rows, "nature", col),
     tenor |-> CouponCell(rows, "tenor", col),
     coupon_percent_pa |-> PercentOrZero(OrZeroText(CouponCell(rows, "coupon", col))),
     effective_yield_percent_pa |-> PercentOrZero(OrZeroText(CouponCell(rows, "eff", col))),
     amount_on_maturity |-> FloatOrZero(Str(OrZeroText(CouponCell(rows, "amt", col))))]
SeriesOf(series_cols, rows) == List([col \in 1..Len(series_cols) |-> Series(series_cols, rows, col)])
CouponsOfParts(soup, thead, tbody) ==
    IF thead = 0 \/ tbody = 0 THEN List(<<>>)
    ELSE SeriesOf(SeriesCols(Texts(soup, Tags(soup, thead, {"th"}))),
                  SelectSeq(Map(LAMBDA tr : TdTexts(soup, tr), Tags(soup, tbody, {"tr"})),
                            LAMBDA cells : cells # <<>>))
CouponsOfTable(soup, table) ==
    IF table = 0 THEN List(<<>>)
    ELSE CouponsOfParts(soup, FirstTagIn(soup, table, {"thead"}), FirstTagIn(soup, table, {"tbody"}))
ncd_extract_coupon_series(soup) ==
    CouponsOfTable(soup, find(soup, 1, LAMBDA m : Named(soup, m, {"table"}) /\ IdHas(soup, m, "coupon")))

\* row.get(a, row.get(b, "")) or (cells[k].get_text() if len(cells) > k else "")
GotOr(got_a, got_b) ==
    IF ~IsNone(got_a) THEN got_a.v
    ELSE IF ~IsNone(got_b) THEN got_b.v
    ELSE <<>>
FieldOr(soup, cells, k, got) ==
    IF got # <<>> THEN got
    ELSE IF Len(cells) > k THEN get_text(soup, cells[k + 1])
    ELSE <<>>
RatingField(soup, r, a, b, k) == FieldOr(soup, r.cells, k, GotOr(RowGet(r.row, a), RowGet(r.row, b)))
\* A row of the table: its dictionary and its cells
RatingRow(soup, headers, cells) ==
    [row |-> [headers |-> headers, cells |-> Texts(soup, cells)], cells |-> cells]
\* len(cells) >= 2 and (agency or rating)
IsRated(soup, r) ==
    /\ Len(r.cells) >= 2
    /\ \/ RatingField(soup, r, <<"Rating", " ", "Agency">>, <<"rating_agency">>, 1) # <<>>
       \/ RatingField(soup, r, <<"NCD", " ", "Rating">>, <<"ncd_rating">>, 2) # <<>>
RatingEntry(soup, r) ==
    [rating_agency |-> clean_text(RatingField(soup, r, <<"Rating", " ", "Agency">>, <<"rating_agency">>, 1)),
     ncd_rating |-> clean_text(RatingField(soup, r, <<"NCD", " ", "Rating">>, <<"ncd_rating">>, 2)),
     outlook |-> clean_text(RatingField(soup, r, <<"Outlook">>, <<"outlook">>, 3)),
     safety_degree |-> clean_text(RatingField(soup, r, <<"Safety", " ", "Degree">>, <<"safety_degree">>, 4)),
     risk_degree |-> clean_text(RatingField(soup, r, <<"Risk", " ", "Degree">>, <<"risk_degree">>, 5))]
RatingsUnder(soup, rows, headers) ==
    Map(LAMBDA r : RatingEntry(soup, r),
        SelectSeq(Map(LAMBDA tr : RatingRow(soup, headers, Tags(soup, tr, {"td"})), Tail(rows)),
                  LAMBDA r : IsRated(soup, r)))
RatingsOfRows(soup, rows) ==
    IF Len(rows) < 2 THEN List(<<>>)
    ELSE List(RatingsUnder(soup, rows, Texts(soup, Tags(soup, rows[1], {"th"}))))
RatingsOfTable(soup, table) ==
    IF table = 0 THEN List(<<>>) ELSE RatingsOfRows(soup, Tags(soup, table, {"tr"}))
ncd_extract_ratings(soup) ==
    RatingsOfTable(soup, find(soup, 1, LAMBDA m : Named(soup, m, {"table"})
                                                  /\ IdHas(soup, m, "ncd_rating")))

\* re.sub(r"\s+are\s+the\s+company\s+promoters\.?\s*$", "", text, flags=re.I)
\* for a cleaned text
PromoterTail == <<" ", "are", " ", "the", " ", "company", " ", "promoters">>
EndsWithTail(x) ==
    Len(x) >= Len(PromoterTail) /\ Lower(SubSeq(x, Len(x) - Len(PromoterTail) + 1, Len(x))) = PromoterTail
DropTail(text, s) == IF EndsWithTail(s) THEN SubSeq(s, 1, Len(s) - Len(PromoterTail)) ELSE text
DropPromoterTail(text) ==
    DropTail(text, IF text # <<>> /\ text[Len(text)] = "." THEN SubSeq(text, 1, Len(text) - 1)
                   ELSE text)

\* " are the company promoters" in t or (" and " in t and "promoter" in t.lower())
TellsPromoters(t) ==
    \/ In(<<" ", "are", " ", "the", " ", "company", " ", "promoters">>, t)
    \/ In(<<" ", "and", " ">>, t) /\ In(<<"promoter">>, Lower(t))
\* the div after the h2 of the card that has Promoter in it
DivAfter(soup, h2) ==
    IF h2 = 0 THEN 0 ELSE find_next_sibling(soup, h2, LAMBDA m : Named(soup, m, {"div"}))
ToldOr(soup, told) == IF told # 0 THEN clean_text(get_text(soup, told)) ELSE <<>>
DivOr(soup, card, d) ==
    IF d # 0 THEN clean_text(get_text(soup, d))
    ELSE ToldOr(soup, First(SelectSeq(Tags(soup, card, {"div"}),
                                      LAMBDA x : TellsPromoters(get_text(soup, x)))))
CardPromoterText(soup, card) ==
    IF card = 0 THEN <<>>
    ELSE DivOr(soup, card,
               DivAfter(soup, First(SelectSeq(Tags(soup, card, {"h2"}),
                                              LAMBDA h : In(<<"Promoter">>, get_text(soup, h))))))
PromoterText(soup, labelled) ==
    IF Truthy(labelled) THEN labelled.v
    ELSE CardPromoterText(soup, find_card_by_heading(soup, <<<<"Company", " ", "Promoters">>,
                                                            <<"Promoters">>>>))
PromotersIn(promoter_text) ==
    IF promoter_text = <<>> THEN List(<<>>)
    ELSE List(SelectSeq(Map(clean_text, ReSplit("ncd", DropPromoterTail(promoter_text))),
                        LAMBDA p : p # <<>> /\ CharLen(p) > 2))
ncd_extract_promoters(soup) ==
    PromotersIn(PromoterText(soup, Or(get_value_by_label_in_li(soup, <<"Promoters">>),
                                      get_value_by_label_contains(soup, <<"Promoters">>))))

\* parent.find("ul", class_=lambda c: not c or "top-ratios" not in c): the
\* callable sees None without a class and each class otherwise
PlainUl(soup, m) ==
    /\ Named(soup, m, {"ul"})
    /\ \/ ~HasAttr(soup, m, "class")
       \/ soup[m].at.class = <<>>
       \/ \E k \in 1..Len(soup[m].at.class) : ~InName("top-ratios", soup[m].at.class[k])

\* The items of a list longer than 15 characters
IssueItems(soup, ul) ==
    SelectSeq(Texts(soup, Tags(soup, ul, {"li"})), LAMBDA t : t # <<>> /\ CharLen(t) > 15)
\* 1 <= len(items) <= 20
FewItems(items) == 1 <= Len(items) /\ Len(items) <= 20
GoodUl(soup, ul) == ul # 0 /\ FewItems(IssueItems(soup, ul))
\* the first of up to `left` ancestors whose list is returned, 0 when none
RECURSIVE ParentUp(_, _, _)
ParentUp(soup, left, parent) ==
    IF left = 0 \/ parent = 0 THEN 0
    ELSE IF GoodUl(soup, find(soup, parent, LAMBDA m : PlainUl(soup, m))) THEN parent
    ELSE ParentUp(soup, left - 1, soup[parent].parent)
ObjectsUnder(soup, h) ==
    IF h = 0 THEN List(<<>>)
    ELSE List(IssueItems(soup, find(soup, ParentUp(soup, 5, soup[h].parent),
                                    LAMBDA m : PlainUl(soup, m))))
ncd_extract_objects_of_issue(soup) ==
    ObjectsUnder(soup,
        First(SelectSeq(Tags(soup, 1, {"h2", "h3"}),
                        LAMBDA h : /\ In(<<"Objects", " ", "of", " ", "the", " ", "Issue">>,
                                         get_text(soup, h))
                                   /\ ParentUp(soup, 5, soup[h].parent) # 0)))

\* a.get_text() if the li has a link, else li.get_text()
NcdLiText(soup, li, link) ==
    IF link # 0 THEN clean_text(get_text(soup, link)) ELSE clean_text(get_text(soup, li))
NcdKept(t) == t # <<>> /\ ~InAny(LeadManagerExclude, t) /\ CharLen(t) > 3
NcdName(t) == IF In(<<"(">>, t) THEN Before(<<"(">>, t) ELSE t
NcdListed(soup, ol) ==
    Unique(NonEmpty(Map(NcdName,
                        SelectSeq(Map(LAMBDA li : NcdLiText(soup, li, LiLink(soup, li)),
                                      Tags(soup, ol, {"li"})),
                                  NcdKept))))
FirstLinked(linked) == IF linked # <<>> THEN List(<<linked[1]>>) ELSE List(<<>>)
NcdManagersIn(soup, card, ol) ==
    IF ol # 0 THEN List(NcdListed(soup, ol))
    ELSE FirstLinked(SelectSeq(Texts(soup, find_all(soup, card,
                                         LAMBDA m : /\ Named(soup, m, {"a"})
                                                    /\ HasAttr(soup, m, "href")
                                                    /\ In(<<"lead", "-", "manager">>, soup[m].at.href))),
                               NcdKept))
NcdManagersOf(soup, card) ==
    IF card = 0 THEN List(<<>>) ELSE NcdManagersIn(soup, card, FirstTagIn(soup, card, {"ol"}))
ncd_extract_lead_managers(soup) ==
    NcdManagersOf(soup, find_card_by_heading(soup, <<<<"NCD", " ", "Lead", " ", "Manager">>,
                                                     <<"Lead", " ", "Manager">>>>))

DocumentExclude ==
    <<<<"Upcoming", " ", "IPOs">>, <<"Report", " ", "List">>, <<"Stock", " ", "Broker">>,
      <<"Stock", " ", "Market">>, <<"Other", " ", "Report">>, <<"Mainboard", " ", "RHP">>,
      <<"SME", " ", "RHP">>>>

\* a link to a document: href has rhp, drhp, prospectus, document or sebi.gov.in
IsDocLink(soup, m) ==
    /\ Named(soup, m, {"a"})
    /\ HasAttr(soup, m, "href")
    /\ soup[m].at.href # <<>>
    /\ InAny(<<<<"rhp">>, <<"drhp">>, <<"prospectus">>, <<"document">>, <<"sebi.gov.in">>>>,
             Lower(soup[m].at.href))
\* a titled link to sebi.gov.in or to a prospectus, not a navigation link
RealDoc(title, href) ==
    /\ ~InAny(DocumentExclude, title)
    /\ title # <<>>
    /\ \/ In(<<"sebi.gov.in">>, href)
       \/ InAny(<<<<"prospectus">>, <<"rhp">>, <<"drhp">>>>, Lower(href))
DocumentOf(title, href) ==
    [title |-> title,
     url |-> IF StartsWithHttp(href) THEN href
             ELSE <<"https:", "/", "/", "www.chittorgarh.com">> \o href]
ncd_extract_documents(soup) ==
    List(Map(LAMBDA m : DocumentOf(clean_text(get_text(soup, m)), soup[m].at.href),
             SelectSeq(find_all(soup, 1, LAMBDA m : IsDocLink(soup, m)),
                       LAMBDA m : RealDoc(clean_text(get_text(soup, m)), soup[m].at.href))))

----------------------------------------------------------------------------
(* Dates of the issue (chittorgarh._extract_date, ncd._extract_date_improved) *)

IsAlphaChar(c) == \E k \in 1..26 : SubSeq(UpperCase, k, k) = c \/ SubSeq(LowerCase, k, k) = c
\* the atom is a word of letters only
IsAlphaWord(a) == a # Rupee /\ Len(a) > 0 /\ \A k \in 1..Len(a) : IsAlphaChar(SubSeq(a, k, k))
Last3(a) == SubSeq(a, Len(a) - 2, Len(a))

\* ,\s+\d{4} with the comma at c and the year at y: the end of the match, or 0
EmbYear(v, c, y) ==
    IF y > c + 1 /\ y + 3 <= Len(v) /\ \A j \in y..(y + 3) : IsDigit(v[j]) THEN y + 3 ELSE 0
\* \d{1,2},\s+\d{4} from b
EmbDay(v, b) ==
    IF b + 2 <= Len(v) /\ IsDigit(v[b]) /\ IsDigit(v[b + 1]) /\ v[b + 2] = ","
    THEN EmbYear(v, b + 2, SkipSpaces(v, b + 3))
    ELSE IF b + 1 <= Len(v) /\ IsDigit(v[b]) /\ v[b + 1] = "," THEN EmbYear(v, b + 1, SkipSpaces(v, b + 2))
    ELSE 0
\* [A-Za-z]{3}\s+\d{1,2},\s+\d{4} with a word of three letters at a and the day at b
EmbMonth(v, a, b) ==
    IF a <= Len(v) /\ IsAlphaWord(v[a]) /\ Len(v[a]) = 3 /\ b > a + 1 THEN EmbDay(v, b) ELSE 0
EmbeddedFrom(v, p, a) ==
    IF IsAlphaWord(v[p]) /\ Len(v[p]) >= 3 /\ p + 1 <= Len(v) /\ v[p + 1] = "," /\ a > p + 2
    THEN EmbMonth(v, a, SkipSpaces(v, a + 1))
    ELSE 0
\* A match of [A-Za-z]{3},\s+[A-Za-z]{3}\s+\d{1,2},\s+\d{4} that begins with
\* the last three letters of the word at p: its last position, or 0
EmbeddedEnd(v, p) == EmbeddedFrom(v, p, SkipSpaces(v, p + 2))

\* re.findall of that pattern from position p: the matched texts, left to right
RECURSIVE FindAllDates(_, _)
DatesAfter(v, p, e) ==
    IF e = 0 THEN FindAllDates(v, p + 1)
    ELSE <<<<Last3(v[p])>> \o SubSeq(v, p + 1, e)>> \o FindAllDates(v, e + 1)
FindAllDates(v, p) == IF p > Len(v) THEN <<>> ELSE DatesAfter(v, p, EmbeddedEnd(v, p))

\* datetime.strptime(s, "%A, %B %d, %Y").date(), None for its ValueError
FullWeekdays == {"monday", "tuesday", "wednesday", "thursday", "friday", "saturday", "sunday"}
FullMonthSeq == <<"january", "february", "march", "april", "may", "june", "july", "august", "september",
                  "october", "november", "december">>
FullMonthNum(m) == IF \E j \in 1..12 : FullMonthSeq[j] = m THEN CHOOSE j \in 1..12 : FullMonthSeq[j] = m ELSE 0
FullDate(y, m, d) == IF y = 0 \/ m = 0 \/ d > DaysIn(m, y) THEN None ELSE Date(y, m, d)
FullDay(s, m, b, dl) ==
    IF dl = 0 THEN None
    ELSE FullDate(YearRest(s, b + dl), m, DigitsToNat(SubSeq(s, b, b + dl - 1)))
FullMonth(s, a, b) ==
    IF ~(a > 3 /\ a <= Len(s) /\ b > a + 1 /\ IsAlphaWord(s[a])) THEN None
    ELSE FullDay(s, FullMonthNum(LowerWord(s[a])), b,
                 IF DayTwo(s, b) /\ YearRest(s, b + 2) # 0 THEN 2
                 ELSE IF DayOne(s, b) /\ YearRest(s, b + 1) # 0 THEN 1 ELSE 0)
StrptimeFull(s) ==
    IF ~(Len(s) >= 2 /\ IsAlphaWord(s[1]) /\ LowerWord(s[1]) \in FullWeekdays /\ s[2] = ",") THEN None
    ELSE FullMonth(s, SkipSpaces(s, 3), SkipSpaces(s, SkipSpaces(s, 3) + 1))

\* cards, then the labeled list, then the table
DateValue(soup, label) ==
    Or(Or(get_value_from_cards(soup, label), get_value_by_label_in_li(soup, label)),
       get_value_by_label_contains(soup, label))
\* "word" in str(labels)
InLabels(word, labels) == \E k \in 1..Len(labels) : In(<<word>>, labels[k])

\* _parse of _extract_date: the first embedded date that parses, then the
\* whole text as a canonical date, then as 'Wednesday, January 14, 2026'
RECURSIVE FirstParsed(_, _)
FirstParsed(dates, k) ==
    IF k > Len(dates) THEN None ELSE Or(parse_date(Str(dates[k])), FirstParsed(dates, k + 1))
DateParse(v) ==
    IF ~Truthy(v) THEN None
    ELSE Or(Or(FirstParsed(FindAllDates(v.v, 1), 1), parse_date(v)), StrptimeFull(Strip(v.v)))
RECURSIVE DateOfLabels(_, _, _)
DateOfLabels(soup, labels, k) ==
    IF k > Len(labels) THEN None
    ELSE Or(DateParse(DateValue(soup, labels[k])), DateOfLabels(soup, labels, k + 1))

\* (\d{1,2})\s+to\s+(\d{1,2})\s+([A-Za-z]{3}),\s+(\d{4}): the groups, <<>> without a match
R1Year(v, d1, d2, mon, y) ==
    IF y + 3 <= Len(v) /\ \A j \in y..(y + 3) : IsDigit(v[j]) THEN <<d1, d2, mon, SubSeq(v, y, y + 3)>> ELSE <<>>
R1Month(v, d1, d2, m) ==
    IF m + 1 <= Len(v) /\ IsAlphaWord(v[m]) /\ Len(v[m]) = 3 /\ v[m + 1] = "," /\ SkipSpaces(v, m + 2) > m + 2
    THEN R1Year(v, d1, d2, <<v[m]>>, SkipSpaces(v, m + 2))
    ELSE <<>>
R1Day2(v, d1, b) ==
    IF b + 2 <= Len(v) /\ IsDigit(v[b]) /\ IsDigit(v[b + 1]) /\ IsSpace(v[b + 2])
    THEN R1Month(v, d1, SubSeq(v, b, b + 1), SkipSpaces(v, b + 2))
    ELSE IF b + 1 <= Len(v) /\ IsDigit(v[b]) /\ IsSpace(v[b + 1])
    THEN R1Month(v, d1, SubSeq(v, b, b), SkipSpaces(v, b + 1))
    ELSE <<>>
R1ToAt(v, d1, s, t) ==
    IF t > s /\ t + 1 <= Len(v) /\ v[t] = "to" /\ IsSpace(v[t + 1]) THEN R1Day2(v, d1, SkipSpaces(v, t + 1))
    ELSE <<>>
R1To(v, d1, s) == R1ToAt(v, d1, s, SkipSpaces(v, s))
R1At(v, p) ==
    IF ~IsDigit(v[p]) THEN <<>>
    ELSE OrSeq(IF p + 1 <= Len(v) /\ IsDigit(v[p + 1]) THEN R1To(v, SubSeq(v, p, p + 1), p + 2) ELSE <<>>,
               R1To(v, SubSeq(v, p, p), p + 1))
RECURSIVE RangeSearch1(_, _)
RangeSearch1(v, p) == IF p > Len(v) THEN <<>> ELSE OrSeq(R1At(v, p), RangeSearch1(v, p + 1))
\* f"{day2} {month} {year}" or f"{day1} {month} {year}"
DayMonthYear(g, closing) == (IF closing THEN g[2] ELSE g[1]) \o <<" ">> \o g[3] \o <<" ">> \o g[4]

\* ([A-Za-z]{3})\s+(\d{1,2}),\s+(\d{4})\s+to\s+([A-Za-z]{3})\s+(\d{1,2}),\s+(\d{4})
\* f"{month} {day}, {year}" of the month at a whose year ends at e
MonthDayYear(v, a, e) ==
    <<Last3(v[a]), " ">> \o SelectSeq(SubSeq(v, a + 1, e - 4), IsDigit) \o <<",", " ">> \o SubSeq(v, e - 3, e)
R2Second(v, p, e1, a, e2, closing) ==
    IF e2 = 0 THEN <<>> ELSE IF closing THEN MonthDayYear(v, a, e2) ELSE MonthDayYear(v, p, e1)
R2ToAt(v, p, e1, t, closing) ==
    IF e1 # 0 /\ t > e1 + 1 /\ t + 1 <= Len(v) /\ v[t] = "to" /\ IsSpace(v[t + 1])
    THEN R2Second(v, p, e1, SkipSpaces(v, t + 1),
                  EmbMonth(v, SkipSpaces(v, t + 1), SkipSpaces(v, SkipSpaces(v, t + 1) + 1)), closing)
    ELSE <<>>
R2First(v, p, e1, closing) == R2ToAt(v, p, e1, SkipSpaces(v, e1 + 1), closing)
R2At(v, p, b, closing) ==
    IF IsAlphaWord(v[p]) /\ Len(v[p]) >= 3 /\ b > p + 1 THEN R2First(v, p, EmbDay(v, b), closing) ELSE <<>>
RECURSIVE RangeSearch2(_, _, _)
RangeSearch2(v, p, closing) ==
    IF p > Len(v) THEN <<>>
    ELSE OrSeq(R2At(v, p, SkipSpaces(v, p + 1), closing), RangeSearch2(v, p + 1, closing))

\* The 'IPO Date' cell read as a range
DateOfFound(g, closing) == IF g = <<>> THEN None ELSE parse_date(Str(DayMonthYear(g, closing)))
DateOfRange(v, closing) ==
    IF ~Truthy(v) THEN None
    ELSE Or(DateOfFound(RangeSearch1(v.v, 1), closing), parse_date(Str(RangeSearch2(v.v, 1, closing))))
\* chittorgarh._extract_date for labels other than those of the basis of allotment
extract_date(soup, labels) ==
    Or(DateOfLabels(soup, labels, 1),
       IF InLabels("Open", labels) \/ InLabels("Close", labels)
       THEN DateOfRange(get_value_by_label_contains(soup, <<"IPO", " ", "Date">>), InLabels("Close", labels))
       ELSE None)

\* _parse_date_val of _extract_date_improved: the last embedded date for the
\* close labels and the first one otherwise
PickDate(v, dates, closing) ==
    IF dates # <<>> THEN parse_date(Str(IF closing THEN dates[Len(dates)] ELSE dates[1])) ELSE parse_date(v)
parse_date_val(v, closing) == IF ~Truthy(v) THEN None ELSE PickDate(v, FindAllDates(v.v, 1), closing)
RECURSIVE DateOfNcdLabels(_, _, _, _)
DateOfNcdLabels(soup, labels, k, closing) ==
    IF k > Len(labels) THEN None
    ELSE Or(parse_date_val(DateValue(soup, labels[k]), closing), DateOfNcdLabels(soup, labels, k + 1, closing))
\* the cards whose text names the label, read at their p.fs-5
Fs5Date(soup, p, closing) ==
    IF p = 0 THEN None ELSE parse_date_val(Str(clean_text(get_text(soup, p))), closing)
RECURSIVE DateOfCards(_, _, _, _, _)
DateOfCards(soup, label, cards, k, closing) ==
    IF k > Len(cards) THEN None
    ELSE Or(IF In(Lower(label), Lower(get_text(soup, cards[k])))
            THEN Fs5Date(soup, find(soup, cards[k], LAMBDA m : Named(soup, m, {"p"}) /\ HasClass(soup, m, "fs-5")),
                         closing)
            ELSE None,
            DateOfCards(soup, label, cards, k + 1, closing))
RECURSIVE DateOfCardLabels(_, _, _, _, _)
DateOfCardLabels(soup, labels, k, cards, closing) ==
    IF k > Len(labels) THEN None
    ELSE Or(DateOfCards(soup, labels[k], cards, 1, closing), DateOfCardLabels(soup, labels, k + 1, cards, closing))
extract_date_improved(soup, labels) ==
    Or(DateOfNcdLabels(soup, labels, 1, InLabels("Close", labels)),
       DateOfCardLabels(soup, labels, 1,
                        find_all(soup, 1, LAMBDA m : Named(soup, m, {"div"}) /\ HasClass(soup, m, "card")),
                        InLabels("Close", labels)))

----------------------------------------------------------------------------
(* Links to the documents of the issue (chittorgarh._extract_doc_urls,
   parser.extract_link_by_text) *)

\* h.endswith(".pdf")
EndsWithPdf(h) == Len(h) >= 2 /\ SubSeq(h, Len(h) - 1, Len(h)) = <<".", "pdf">>
\* "sebi.gov.in" in h or "chittorgarh.net" in h or h.endswith(".pdf")
Allowlisted(h) == In(<<"sebi.gov.in">>, h) \/ In(<<"chittorgarh.net">>, h) \/ EndsWithPdf(h)
FullUrl(h) == IF StartsWithHttp(h) THEN h ELSE <<"https:", "/", "/", "www.chittorgarh.com">> \o h
\* The key the text of the link is filed under, "none" for no key
CategoryOfLink(t) ==
    IF In(<<"drhp">>, t) THEN "drhp"
    ELSE IF In(<<"final">>, t) \/ In(<<"prospectus">>, t) THEN "final_prospectus"
    ELSE IF In(<<"rhp">>, t) THEN "rhp"
    ELSE IF In(<<"anchor">>, t) THEN "anchor"
    ELSE "none"
NoDocUrls == [c \in {"drhp", "rhp", "final_prospectus", "anchor"} |-> None]
\* out[key] = full: the link takes the place of an earlier one of its key
AfterLink(out, h, c) ==
    IF ~Allowlisted(h) \/ c = "none" THEN out ELSE [out EXCEPT ![c] = Str(FullUrl(h))]
RECURSIVE DocUrlsFrom(_, _, _, _)
DocUrlsFrom(soup, links, k, out) ==
    IF k > Len(links) THEN out
    ELSE DocUrlsFrom(soup, links, k + 1,
                     AfterLink(out, soup[links[k]].at.href,
                               CategoryOfLink(Lower(clean_text(get_text(soup, links[k]))))))
\* soup.find_all("a", href=True)
LinksOf(soup) == find_all(soup, 1, LAMBDA m : Named(soup, m, {"a"}) /\ HasAttr(soup, m, "href"))
extract_doc_urls(soup) == DocUrlsFrom(soup, LinksOf(soup), 1, NoDocUrls)

\* parser.extract_link_by_text: the href of the first link whose text holds link_text
RECURSIVE LinkByText(_, _, _, _)
LinkByText(soup, links, k, link_text) ==
    IF k > Len(links) THEN None
    ELSE IF In(Lower(link_text), Lower(clean_text(get_text(soup, links[k])))) THEN Str(soup[links[k]].at.href)
    ELSE LinkByText(soup, links, k + 1, link_text)
extract_link_by_text(soup, link_text) == LinkByText(soup, LinksOf(soup), 1, link_text)

----------------------------------------------------------------------------
(* The assemblers: _scrape_ipo_from_soup and _scrape_ncd_from_soup *)

\* A returned dictionary
Dict(fields) == [t |-> "dict", v |-> fields]

\* soup.find("h1"): get_text(strip=True) if found else ""
PageName(soup) ==
    LET name_elem == find(soup, 1, LAMBDA m : Named(soup, m, {"h1"}))
    IN IF name_elem # 0 THEN get_text_strip(soup, name_elem) ELSE <<>>

\* pb = _get_ipo_value(soup, "Price Band") and the fallback to "Issue Price"
PriceOf(ip) == IF Truthy(ip) THEN parse_float(ip) ELSE None
SamePrice(p) == Band(p, p)
BandOr(soup, band) ==
    IF IsNone(band.low)
    THEN SamePrice(PriceOf(Or(get_ipo_value(soup, <<"Issue", " ", "Price">>),
                              get_value_from_cards(soup, <<"Issue", " ", "Price">>))))
    ELSE band
IssuePrice(soup) == BandOr(soup, parse_price_band(get_ipo_value(soup, <<"Price", " ", "Band">>)))

----------------------------------------------------------------------------
(* Issue size and its split into fresh issue and offer for sale *)

IsAmountChar(c) == IsDigit(c) \/ c = ","
\* Last index of the run of digits and commas that starts at p
RECURSIVE AmountRunEnd(_, _)
AmountRunEnd(v, p) == IF p + 1 <= Len(v) /\ IsAmountChar(v[p + 1]) THEN AmountRunEnd(v, p + 1) ELSE p
\* [Cc]r or [Cc]rore at the start of the word a
StartsUnit(unit, a) ==
    /\ a # Rupee /\ Len(a) >= Len(unit)
    /\ SubSeq(a, 1, 1) \in {"C", "c"}
    /\ SubSeq(a, 2, Len(unit)) = SubSeq(unit, 2, Len(unit))
\* \s*[Cc]r... from q
UnitAt(v, u, unit) == u <= Len(v) /\ StartsUnit(unit, v[u])
\* (?:\.[\d]+)? after the run that ends at e: its last index, 0 without it
DecimalEnd(v, e) == IF e + 2 <= Len(v) /\ v[e + 1] = "." /\ IsDigit(v[e + 2]) THEN DigitRunEnd(v, e + 2) ELSE 0
AmountWith(v, p, e, f, unit) ==
    IF f # 0 /\ UnitAt(v, SkipSpaces(v, f + 1), unit) THEN SubSeq(v, p, f)
    ELSE IF UnitAt(v, SkipSpaces(v, e + 1), unit) THEN SubSeq(v, p, e)
    ELSE <<>>
\* re.search of ([\d,]+)\s*[Cc]r, or of ([\d,]+(?:\.[\d]+)?)\s*[Cc]rore with
\* decimals, from p: the group, <<>> without a match
RECURSIVE AmountSearch(_, _, _, _)
AmountNext(v, p, e, unit, decimals) ==
    OrSeq(AmountWith(v, p, e, IF decimals THEN DecimalEnd(v, e) ELSE 0, unit),
          AmountSearch(v, e + 1, unit, decimals))
AmountSearch(v, p, unit, decimals) ==
    IF p > Len(v) THEN <<>>
    ELSE IF ~IsAmountChar(v[p]) THEN AmountSearch(v, p + 1, unit, decimals)
    ELSE AmountNext(v, p, AmountRunEnd(v, p), unit, decimals)

\* chittorgarh._parse_issue_size_crore
CroreOr(s, g) == IF g # <<>> THEN parse_float(Str(RemoveCommas(g))) ELSE parse_float(s)
parse_issue_size_crore(s) == IF ~Truthy(s) THEN None ELSE CroreOr(s, AmountSearch(s.v, 1, "Cr", FALSE))

SizeSplit(f, o) == [fresh |-> f, ofs |-> o]
OfferForSale == <<"offer", " ", "for", " ", "sale">>
\* The inference of the split from the sale type
Infer(total, fresh, ofs, sale_type) ==
    IF ~(IsNone(fresh) /\ IsNone(ofs) /\ Truthy(total)) THEN SizeSplit(fresh, ofs)
    ELSE IF In(OfferForSale, sale_type) \/ In(<<"ofs">>, sale_type) THEN SizeSplit(PyInt(0), total)
    ELSE IF In(<<"fresh">>, sale_type) /\ ~In(<<"sale">>, sale_type) THEN SizeSplit(total, PyInt(0))
    ELSE SizeSplit(fresh, ofs)

\* The first of the two blocks that mentions an offer for sale and holds an
\* amount in crore: the amount, <<>> without one
BlockAmount(soup, blk) ==
    IF blk # 0 /\ In(OfferForSale, Lower(get_text(soup, blk)))
    THEN AmountSearch(get_text(soup, blk), 1, "Crore", TRUE)
    ELSE <<>>
NarrativeAmount(soup) ==
    OrSeq(BlockAmount(soup, find(soup, 1, LAMBDA m : Named(soup, m, {"div"}) /\ IdIs(soup, m, "ipoSummary"))),
          BlockAmount(soup, find(soup, 1, LAMBDA m : Named(soup, m, {"div"})
                                                       /\ HasClass(soup, m, "ipo-dynamic-content"))))
\* The offer for sale of the narrative, with the fresh issue 0 when it has no value
FromNarrative(split, total, g) ==
    IF IsNone(split.ofs) /\ Truthy(total) /\ g # <<>>
    THEN SizeSplit(IF IsNone(split.fresh) THEN PyInt(0) ELSE split.fresh, parse_float(Str(RemoveCommas(g))))
    ELSE split

IssueSize(soup) ==
    parse_issue_size_crore(Or(get_ipo_value(soup, <<"Total", " ", "Issue", " ", "Size">>),
                              get_ipo_value(soup, <<"Issue", " ", "Size">>)))
LabelledFresh(soup) ==
    parse_float(Or(get_ipo_value(soup, <<"Fresh", " ", "Issue">>),
                   get_ipo_value(soup, <<"Fresh", " ", "Issue", " ", "(", "Rs", " ", "Cr", ")">>)))
LabelledOfs(soup) ==
    parse_float(Or(Or(get_ipo_value(soup, <<"Offer", " ", "for", " ", "Sale">>), get_ipo_value(soup, <<"OFS">>)),
                   get_ipo_value(soup, <<"Offer", " ", "for", " ", "Sale", " ", "(", "Rs", " ", "Cr", ")">>)))
SaleType(soup) == Lower(Or(get_ipo_value(soup, <<"Sale", " ", "Type">>), Str(<<>>)).v)
IssueSplitOf(soup, total) ==
    FromNarrative(Infer(total, LabelledFresh(soup), LabelledOfs(soup), SaleType(soup)), total,
                  NarrativeAmount(soup))

\* The dictionary _scrape_ipo_from_soup returns, or the exception it raises
IpoRecord(soup, url, total, split, doc_urls, price, financials, faqs) ==
    IF ~IsIntText(LastSegment(url)) THEN Raised("ValueError")
    ELSE IF IsRaised(financials) THEN financials
    ELSE IF IsRaised(faqs) THEN faqs
    ELSE Dict([external_id |-> IntOf(LastSegment(url)),
               slug |-> SlugAfter(<<"/", "ipo", "/">>, url),
               name |-> PageName(soup),
               issue_size_crore |-> total,
               fresh_issue_crore |-> split.fresh,
               ofs_issue_crore |-> split.ofs,
               issue_type |-> get_ipo_value(soup, <<"Issue", " ", "Type">>),
               issue_price_low |-> price.low,
               issue_price_high |-> price.high,
               issue_open_date |->
                   extract_date(soup, <<<<"IPO", " ", "Open">>, <<"Issue", " ", "Open">>, <<"Open", " ", "Date">>>>),
               issue_close_date |->
                   extract_date(soup, <<<<"IPO", " ", "Close">>, <<"Issue", " ", "Close">>, <<"Close", " ", "Date">>>>),
               strengths |-> extract_strengths(soup),
               weaknesses |-> extract_weaknesses(soup),
               opportunities |-> extract_opportunities(soup),
               threats |-> extract_threats(soup),
               products |-> extract_products(soup),
               services |-> extract_services(soup),
               promoters |-> extract_promoters(soup),
               lead_managers |-> extract_lead_managers(soup),
               objectives |-> extract_objectives(soup),
               financials |-> financials,
               peers |-> extract_peers(soup),
               company_contacts |-> extract_company_contacts(soup),
               reservations |-> extract_reservations(soup),
               drhp_url |-> Or(doc_urls.drhp, extract_link_by_text(soup, <<"DRHP">>)),
               rhp_url |-> Or(doc_urls.rhp, extract_link_by_text(soup, <<"RHP">>)),
               final_prospectus_url |->
                   Or(doc_urls.final_prospectus, extract_link_by_text(soup, <<"Final", " ", "Prospectus">>)),
               anchor_list_url |->
                   Or(Or(doc_urls.anchor, extract_link_by_text(soup, <<"Anchor", " ", "Investor", " ", "Link">>)),
                      extract_link_by_text(soup, <<"Anchor">>)),
               faqs |-> faqs])

IpoRecordOfSize(soup, url, total) ==
    IpoRecord(soup, url, total, IssueSplitOf(soup, total), extract_doc_urls(soup), IssuePrice(soup), extract_financials(soup),
              extract_faqs(soup))
scrape_ipo_from_soup(soup, url) == IpoRecordOfSize(soup, url, IssueSize(soup))

\* ncd._extract_faqs: every entry of extract_faqs with the key "answer"
NcdAnswer(faq) ==
    IF "answers" \in DOMAIN faq /\ Truthy(faq.answers) THEN faq.answers
    ELSE IF "answer" \in DOMAIN faq THEN faq.answer
    ELSE Str(<<>>)
NcdFaq(faq) == [question |-> faq.question, answer |-> NcdAnswer(faq)]
NcdFaqs(faq_list) == IF IsRaised(faq_list) THEN faq_list ELSE List(Map(NcdFaq, faq_list.v))
ncd_extract_faqs(soup) == NcdFaqs(extract_faqs(soup))

\* re.findall(r"(\d+\.?\d*)\s*%", s) from position p: the captured numbers as
\* floats, each match sought after the "%" of the one before
RECURSIVE FindAllPercent(_, _)
PercentsAt(s, d, q, r) ==
    IF AtPercent(s, r) THEN <<ToFloat(SubSeq(s, d, r))>> \o FindAllPercent(s, SkipSpaces(s, r + 1) + 1)
    ELSE IF AtPercent(s, q) THEN <<ToFloat(SubSeq(s, d, q))>> \o FindAllPercent(s, SkipSpaces(s, q + 1) + 1)
    ELSE FindAllPercent(s, d + 1)
PercentsRun(s, d, q) == PercentsAt(s, d, q, PointEnd(s, q))
PercentsDigits(s, d) == IF d = 0 THEN <<>> ELSE PercentsRun(s, d, DigitRunEnd(s, d))
FindAllPercent(s, p) == PercentsDigits(s, FirstDigitFrom(s, p))

\* re.search(r"[Uu]pto\s*(\d+\.?\d*)\s*%", s) from position p: the number of
\* the leftmost match as a float, None when nothing matches
RECURSIVE UptoFrom(_, _)
FirstUpto(s, p) == Least({j \in p..Len(s) : s[j] \in {"Upto", "upto"}})
UptoNumber(s, j, d, q, r) ==
    IF AtPercent(s, r) THEN Num(ToFloat(SubSeq(s, d, r)))
    ELSE IF AtPercent(s, q) THEN Num(ToFloat(SubSeq(s, d, q)))
    ELSE UptoFrom(s, j + 1)
UptoRun(s, j, d, q) == UptoNumber(s, j, d, q, PointEnd(s, q))
UptoDigits(s, j, d) ==
    IF d <= Len(s) /\ IsDigit(s[d]) THEN UptoRun(s, j, d, DigitRunEnd(s, d)) ELSE UptoFrom(s, j + 1)
UptoAt(s, j) == IF j = 0 THEN None ELSE UptoDigits(s, j, SkipSpaces(s, j + 1))
UptoFrom(s, p) == UptoAt(s, FirstUpto(s, p))
SearchUpto(s) == UptoFrom(s, 1)

\* The pair coupon_rate_min, coupon_rate_max
Rates(lo, hi) == [coupon_rate_min |-> lo, coupon_rate_max |-> hi]
\* if pct: coupon_rate_min = min(nums); coupon_rate_max = max(nums)
RatesOfPercents(nums) ==
    IF nums = <<>> THEN Rates(None, None) ELSE Rates(Num(SeqMin(nums)), Num(SeqMax(nums)))
\* if coupon_text: pct = re.findall(r"(\d+\.?\d*)\s*%", coupon_text)
CardRates(coupon_text) ==
    IF Truthy(coupon_text) THEN RatesOfPercents(FindAllPercent(coupon_text.v, 1)) ELSE Rates(None, None)
\* max((coupon_rate_max or 0), float(upto.group(1))): the first of two equal
\* numbers, so the integer 0 for a zero "upto" and no maximum
UptoMax(coupon_rate_max, upto) ==
    IF Truthy(coupon_rate_max) THEN (IF DecLeq(upto, coupon_rate_max.v) THEN coupon_rate_max ELSE Num(upto))
    ELSE IF upto.n = 0 THEN PyInt(0)
    ELSE Num(upto)
\* if upto: coupon_rate_max = max((coupon_rate_max or 0), float(upto.group(1)))
WithUpto(rates, upto) ==
    IF IsNone(upto) THEN rates
    ELSE Rates(rates.coupon_rate_min, UptoMax(rates.coupon_rate_max, upto.v))
\* str(value or "")
StrOrEmpty(value) == IF Truthy(value) THEN value.v ELSE <<>>
\* The rates of the card: the percentages of "Coupon Rate" or "Coupon", the
\* maximum raised to the "upto" of "Coupon Rate"
RatesOfCard(coupon_rate, coupon) ==
    WithUpto(CardRates(Or(coupon_rate, coupon)), SearchUpto(StrOrEmpty(coupon_rate)))
\* The value of a Python number, an int or a float
ValueOf(x) == IF x.t = "int" THEN Dec(x.v, 0) ELSE x.v
\* [s.get("coupon_percent_pa") or 0 for s in coupon_series if s.get("coupon_percent_pa")]
SeriesRates(coupon_series) ==
    Map(LAMBDA s : ValueOf(s.coupon_percent_pa),
        SelectSeq(coupon_series.v, LAMBDA s : Truthy(s.coupon_percent_pa)))
\* min(rates) if coupon_rate_min is None else min(coupon_rate_min, min(rates))
LoweredTo(coupon_rate_min, lowest) ==
    IF IsNone(coupon_rate_min) \/ ~DecLeq(ValueOf(coupon_rate_min), lowest) THEN Num(lowest)
    ELSE coupon_rate_min
\* max(rates) if coupon_rate_max is None else max(coupon_rate_max, max(rates))
RaisedTo(coupon_rate_max, highest) ==
    IF IsNone(coupon_rate_max) \/ ~DecLeq(highest, ValueOf(coupon_rate_max)) THEN Num(highest)
    ELSE coupon_rate_max
\* The maximum alone taken from the series
RaisedOnly(rates, series_rates) ==
    IF series_rates = <<>> THEN rates
    ELSE Rates(rates.coupon_rate_min, RaisedTo(rates.coupon_rate_max, SeqMax(series_rates)))
\* if coupon_series: rates = [...]; if rates: the minimum and the maximum merged
MergedRates(rates, series_rates) ==
    IF series_rates = <<>> THEN rates
    ELSE Rates(LoweredTo(rates.coupon_rate_min, SeqMin(series_rates)),
               RaisedTo(rates.coupon_rate_max, SeqMax(series_rates)))
\* coupon_rate_min and coupon_rate_max of the page with the series coupon_series
CouponRates(soup, coupon_series) ==
    MergedRates(RatesOfCard(get_ncd_value(soup, <<"Coupon", " ", "Rate">>), get_ncd_value(soup, <<"Coupon">>)),
                SeriesRates(coupon_series))

\* The dictionary _scrape_ncd_from_soup returns, or the exception it raises
NcdFields(soup, url, faqs, coupon_series, rates) ==
    IF IsRaised(faqs) THEN faqs
    ELSE Dict([slug |-> SlugAfter(<<"/", "bond", "/">>, url),
               issue_name |-> PageName(soup),
               open_date |->
                   extract_date_improved(soup, <<<<"Open", " ", "Date">>, <<"Issue", " ", "Open">>,
                                                 <<"NCD", " ", "Open">>, <<"Open">>>>),
               close_date |->
                   extract_date_improved(soup, <<<<"Close", " ", "Date">>, <<"Issue", " ", "Close">>,
                                                 <<"NCD", " ", "Close">>, <<"Close">>>>),
               coupon_rate_min |-> rates.coupon_rate_min,
               coupon_rate_max |-> rates.coupon_rate_max,
               security_type |-> get_ncd_value(soup, <<"Security", " ", "Type">>),
               exchanges |-> ncd_extract_exchanges(soup),
               promoters |-> ncd_extract_promoters(soup),
               coupon_series |-> coupon_series,
               ratings |-> ncd_extract_ratings(soup),
               objects_of_issue |-> ncd_extract_objects_of_issue(soup),
               lead_managers |-> ncd_extract_lead_managers(soup),
               documents |-> ncd_extract_documents(soup),
               faq |-> faqs,
               news |-> List(<<>>)])
NcdWithSeries(soup, url, faqs, coupon_series) ==
    NcdFields(soup, url, faqs, coupon_series, CouponRates(soup, coupon_series))
NcdRecord(soup, url, faqs) == NcdWithSeries(soup, url, faqs, ncd_extract_coupon_series(soup))

scrape_ncd_from_soup(soup, url) == NcdRecord(soup, url, ncd_extract_faqs(soup))

----------------------------------------------------------------------------
(* Schema validation (app/schemas): the list fields and the required fields
   of their entries.  A float field takes a float or an integer. *)

IsList(x) == x.t = "list"
IsFloat(x) == x.t \in {"num", "int"}
IsInt(x) == x.t = "int"
IsDate(x) == x.t = "date"
IsStr(x) == x.t = "str"
\* every entry of the list satisfies the sub-model
ListOf(x, Valid(_)) == IsList(x) /\ \A k \in 1..Len(x.v) : Valid(x.v[k])
\* List[str]: the entries of these lists are texts
ListOfStr(x) == IsList(x)

\* schemas.ipo.Objective
ValidObjective(o) == IsInt(o.sno) /\ IsFloat(o.amount_crore)

\* schemas.ipo.Financial
ValidFinancial(f) ==
    /\ IsStr(f.period_label)
    /\ IsDate(f.period_end_date)
    /\ IsFloat(f.assets) /\ IsFloat(f.total_income) /\ IsFloat(f.pat) /\ IsFloat(f.ebitda)
    /\ IsFloat(f.net_worth) /\ IsFloat(f.reserves) /\ IsFloat(f.borrowings)

\* schemas.ipo.Peer
ValidPeer(p) ==
    IsFloat(p.eps_basic) /\ IsFloat(p.eps_diluted) /\ IsFloat(p.nav) /\ IsFloat(p.pe) /\ IsFloat(p.ronw)

\* schemas.ipo.Reservation
ValidReservation(r) == \A key \in ReservationKeys : IsFloat(r[key])

\* schemas.ipo.FAQ
ValidFAQ(q) == "question" \in DOMAIN q /\ "answers" \in DOMAIN q

\* schemas.ipo.CompanyContact: five texts
ValidCompanyContact(c) == DOMAIN c = {"name", "address", "phone", "email", "website"}

IPOListFields ==
    {"strengths", "weaknesses", "opportunities", "threats", "products", "services", "promoters",
     "lead_managers", "objectives", "financials", "peers", "company_contacts", "reservations", "faqs"}

\* IPO.model_validate(raw)
IPO_model_validate(raw) ==
    IF /\ \A f \in {"strengths", "weaknesses", "opportunities", "threats", "products", "services",
                    "promoters", "lead_managers"} : ListOfStr(raw.v[f])
       /\ ListOf(raw.v.objectives, ValidObjective)
       /\ ListOf(raw.v.financials, ValidFinancial)
       /\ ListOf(raw.v.peers, ValidPeer)
       /\ ListOf(raw.v.company_contacts, ValidCompanyContact)
       /\ ListOf(raw.v.reservations, ValidReservation)
       /\ ListOf(raw.v.faqs, ValidFAQ)
    THEN raw
    ELSE Raised("ValidationError")

\* schemas.ncd.CouponSeries
ValidCouponSeries(s) ==
    IsFloat(s.coupon_percent_pa) /\ IsFloat(s.effective_yield_percent_pa) /\ IsFloat(s.amount_on_maturity)

\* schemas.ncd.Rating: five texts
ValidRating(r) ==
    DOMAIN r = {"rating_agency", "ncd_rating", "outlook", "safety_degree", "risk_degree"}

\* schemas.ncd.Document
ValidDocument(d) == DOMAIN d = {"title", "url"}

\* schemas.ncd.FAQ
ValidNcdFAQ(q) == "question" \in DOMAIN q /\ "answer" \in DOMAIN q

NCDListFields ==
    {"exchanges", "promoters", "coupon_series", "ratings", "objects_of_issue", "lead_managers",
     "documents", "faq", "news"}

\* NCD.model_validate(raw)
NCD_model_validate(raw) ==
    IF /\ \A f \in {"exchanges", "promoters", "objects_of_issue", "lead_managers", "news"} :
              ListOfStr(raw.v[f])
       /\ ListOf(raw.v.coupon_series, ValidCouponSeries)
       /\ ListOf(raw.v.ratings, ValidRating)
       /\ ListOf(raw.v.documents, ValidDocument)
       /\ ListOf(raw.v.faq, ValidNcdFAQ)
    THEN raw
    ELSE Raised("ValidationError")

----------------------------------------------------------------------------
(* Fixture documents, varied one section at a time *)

IssueTypeLabel == <<"Issue", " ", "Type">>
SecurityTypeLabel == <<"Security", " ", "Type">>

TopRatios(items) == <<Tag("ul", [class |-> <<"top-ratios">>], items)>>
\* The labeled list: no list, a value span marked text-end, the value by
\* position, an empty value, a label without a value, another label
LiVariants(label) ==
    {<<>>,
     TopRatios(<<E("li", <<T("span", label), Tc("span", "text-end", <<"Public">>)>>)>>),
     TopRatios(<<E("li", <<T("span", label), T("span", <<" ", "Public", " ", " ", "Issue">>)>>)>>),
     TopRatios(<<E("li", <<T("span", label), Tc("span", "text-end", <<" ">>)>>)>>),
     TopRatios(<<E("li", <<T("span", label)>>)>>),
     TopRatios(<<E("li", <<T("span", <<"Face", " ", "Value">>), T("span", <<"1", "0">>)>>)>>)}

Table(rows) == <<E("table", rows)>>
\* The definition table: no table, label and value cell, a label cell alone,
\* an empty value, a first matching cell without a value before a full row
TdVariants(label) ==
    {<<>>,
     Table(<<E("tr", <<T("td", label), T("td", <<"Rights">>)>>)>>),
     Table(<<E("tr", <<T("td", label)>>)>>),
     Table(<<E("tr", <<T("td", label), T("td", <<" ">>)>>)>>),
     Table(<<E("tr", <<T("td", <<"About", " ">> \o label)>>),
             E("tr", <<T("td", label), T("td", <<"Rights">>)>>)>>)}

Card(contents) == <<Tag("div", [class |-> <<"card", "card-ipo">>], contents)>>
\* The card pair: no card, label and value paragraph, a label alone, an empty
\* value, the value paragraph nested beside the label
CardVariants(label) ==
    {<<>>,
     Card(<<Tc("p", "text-muted", label), Tc("p", "fs-5", <<"Book", " ", "Built">>)>>),
     Card(<<Tc("p", "text-muted", label)>>),
     Card(<<Tc("p", "text-muted", label), Tc("p", "fs-5", <<>>)>>),
     Card(<<Tc("p", "text-muted", label), E("div", <<Tc("p", "fs-5", <<"Book", " ", "Built">>)>>)>>)}

LocatorPages ==
    UNION {{li \o td \o card : li \in LiVariants(label), td \in TdVariants(label),
                               card \in CardVariants(label)} :
           label \in {IssueTypeLabel, SecurityTypeLabel}}

\* The financial table
PeriodEnded == <<"Period", " ", "Ended">>
Mar2025 == <<"3", "1", " ", "Mar", " ", "2", "0", "2", "5">>
Mar2024 == <<"3", "1", " ", "Mar", " ", "2", "0", "2", "4">>
FY2025 == <<"FY", "2", "0", "2", "5">>
FinancialHeaders == {<<PeriodEnded, Mar2025>>, <<PeriodEnded, Mar2025, Mar2024>>,
                     <<PeriodEnded, FY2025>>, <<PeriodEnded>>, <<>>}
FinancialLabels == <<<<"Assets">>, <<"Total", " ", "Income">>, <<"Profit", " ", "After", " ", "Tax">>,
                     <<"EBITDA">>, <<"Net", " ", "Worth">>, <<"Reserves", " ", "and", " ", "Surplus">>,
                     <<"Total", " ", "Borrowing">>>>
Amount == <<"1", ",", "2", "5", "0", ".", "5">>
Row(cells) == E("tr", [k \in 1..Len(cells) |-> T("td", cells[k])])
\* every row with n amounts
FullRows(n) == [k \in 1..7 |-> Row(<<FinancialLabels[k]>> \o [c \in 1..n |-> Amount])]
\* The rows: complete, the EBITDA row missing, the assets row one cell short,
\* an amount that is no number, a row with no cell, only the header row
FinancialRows(n) ==
    {FullRows(n),
     SelectSeq(FullRows(n), LAMBDA r : r # FullRows(n)[4]),
     [FullRows(n) EXCEPT ![1] = Row(<<FinancialLabels[1]>> \o [c \in 1..(n - 1) |-> Amount])],
     [FullRows(n) EXCEPT ![3] = Row(<<FinancialLabels[3]>> \o [c \in 1..n |-> <<"NA">>])],
     [FullRows(n) EXCEPT ![2] = E("tr", <<>>)],
     <<>>}
FinancialTable(headers, rows) ==
    <<Tag("table", [id |-> "financialTable"],
          <<E("tr", [k \in 1..Len(headers) |-> T("th", headers[k])])>> \o rows)>>
FinancialPages ==
    {FinancialTable(h, rows) : h \in FinancialHeaders, rows \in FinancialRows(1) \cup FinancialRows(2)}

\* The FAQ section after its heading
Question1 == <<"What", " ", "is", " ", "the", " ", "issue", " ", "date", "?">>
Accordion(contents) == Tag("div", [class |-> <<"accordion-item">>], contents)
AccordionBody(s) == Tag("div", [class |-> <<"accordion-body">>], <<NavigableString(s)>>)
FaqSection(contents) == <<T("h2", <<"FAQ">>), E("div", contents)>>
FaqPages ==
    {FaqSection(<<Accordion(<<T("button", Question1), AccordionBody(<<"Answer1">>)>>)>>),
     \* an item without a question element, with and without a body
     FaqSection(<<Accordion(<<AccordionBody(<<"Answer1">>)>>),
                  Accordion(<<T("button", Question1), AccordionBody(<<"Answer2">>)>>)>>),
     FaqSection(<<Accordion(<<T("span", <<"Answer1">>)>>)>>),
     \* no body: the answer is the next paragraph
     FaqSection(<<Accordion(<<T("h5", Question1), T("p", <<"Answer1">>)>>)>>),
     FaqSection(<<Accordion(<<T("h5", Question1)>>)>>),
     \* a short question without a question mark, and a long one
     FaqSection(<<Accordion(<<T("button", <<"Lot", " ", "size">>), AccordionBody(<<"Answer1">>)>>)>>),
     FaqSection(<<Accordion(<<T("button", <<"Issue", " ", "price", " ", "band">>),
                              AccordionBody(<<"Answer1">>)>>)>>),
     \* plain headings and paragraphs
     FaqSection(<<T("h4", Question1), T("p", <<"Answer1">>)>>),
     \* schema.org markup without a FAQ heading
     <<Tag("div", [class |-> <<"accordion-item">>, itemtype |-> SchemaQuestion],
           <<Tag("h6", [itemprop |-> "name"], <<NavigableString(Question1)>>),
             Tag("div", [class |-> <<"accordion-body">>, itemtype |-> SchemaAnswer],
                 <<NavigableString(<<"Answer1">>)>>)>>)>>,
     \* a heading with nothing after it
     <<E("div", <<T("h2", <<"FAQ">>)>>)>>}

\* The sections the list extractors read
P(s) == T("p", s)
Li(s) == T("li", s)
Td(s) == T("td", s)
Th(s) == T("th", s)
Summary(contents) == <<Tag("div", [id |-> "ipoSummary"], contents)>>
Business ==
    <<"The", " ", "company", " ", "is", " ", "engaged", " ", "in", " ", "the", " ", "production", " ",
      "of", " ", "steel", ",", " ", "wire", " ", "and", " ", "rods", ".", " ", "Its", " ", "operations",
      " ", "include", " ", "design", " ", "services", ",", " ", "and", " ", "data", " ", "analytics", ".">>
PrimaryProduct ==
    <<"Its", " ", "primary", " ", "product", " ", "is", " ", "steel", ",", " ", "sold", " ", "in", " ",
      "India", ".">>
Promoting == <<"Ravi", " ", "Kumar", " ", "and", " ", "Asha", " ", "Rao", " ", "are", " ", "the", " ",
               "company", " ", "promoters", ".">>
Mining == <<"Acme", " ", "mines", " ", "and", " ", "Asha", " ", "Rao", " ", "are", " ", "the", " ",
            "company", " ", "promoters">>
TwoNames == <<"Ravi", " ", "Kumar", ",", " ", "Asha", " ", "Rao", " ", "and", " ", "Sons">>
AxisCapital == <<"Axis", " ", "Capital", " ", "Ltd">>
AxisSecurities == <<"Axis", " ", "Securities", " ", "(", "3", ")">>
Reviewed == <<"/", "ipo", "-", "lead", "-", "manager", "-", "review", "/", "axis", "/">>
Lending == <<"Onward", " ", "lending", " ", "and", " ", "repayment", " ", "of", " ", "loans">>
SebiLink == <<"https:", "/", "/", "www.sebi.gov.in", "/", "acme", "-", "prospectus", ".", "pdf">>
RhpLink == <<"/", "docs", "/", "acme", "-", "rhp", ".", "pdf">>
SummaryPages ==
    {Summary(<<P(<<"Competitive", " ", "strengths">>), E("ul", <<Li(<<"Strong", " ", "brand">>), Li(<<" ">>)>>)>>),
     Summary(<<P(Business)>>),
     Summary(<<P(PrimaryProduct)>>),
     Summary(<<P(<<"Acme">>)>>)}
\* A card whose list has a blank item and a navigation link among its items
NoisyCard ==
    <<Tag("div", [class |-> <<"card">>],
          <<T("h2", <<"Weaknesses">>),
            E("ul", <<Li(<<"High", " ", "debt">>), Li(<<" ">>), Li(<<"Read", " ", "More">>)>>)>>)>>
NarrativePages ==
    {<<T("h3", <<"Weaknesses">>), E("ul", <<Li(<<"High", " ", "debt">>)>>)>>,
     <<T("h4", <<"Threats">>), E("div", <<P(<<"Import", " ", "risk">>), P(<<" ">>)>>)>>,
     <<Tag("div", [id |-> "opportunity-list"], <<Li(<<"Export", " ", "demand">>)>>)>>,
     <<T("h2", <<"Products">>), E("div", <<P(<<"Steel", " ", "wire">>)>>)>>,
     <<T("h4", <<"Strengths">>), E("ul", <<Li(<<"Strong", " ", "brand">>)>>)>>,
     <<T("h2", <<"Services">>), E("ul", <<Li(<<"Design">>), Li(<<"Broker", " ", "Report">>)>>)>>,
     <<T("h2", <<"Full", " ", "Service", " ", "Brokers">>), E("ul", <<Li(<<"Zerodha">>)>>)>>,
     NoisyCard}
PromoterPages ==
    {<<P(Promoting)>>,
     <<P(Mining)>>,
     Table(<<E("tr", <<Td(<<"Promoters">>), Td(TwoNames)>>)>>),
     <<E("div", <<T("h2", <<"Company", " ", "Promoters">>), E("div", <<NavigableString(Mining)>>)>>)>>,
     <<T("h2", <<"Promoters">>), E("div", <<P(<<"Ravi", " ", "Kumar">>), P(<<"Rao">>)>>)>>}
\* Narrative promoter sentences naming two and three promoters
PromoterNames == <<<<"Ravi", " ", "Kumar">>, <<"Asha", " ", "Rao">>, <<"Anil", " ", "Shah">>>>
AreThePromoters == <<" ", "are", " ", "the", " ", "company", " ", "promoters", ".">>
PromoterSentence(n) ==
    IF n = 2 THEN PromoterNames[1] \o <<" ", "and", " ">> \o PromoterNames[2] \o AreThePromoters
    ELSE PromoterNames[1] \o <<",", " ">> \o PromoterNames[2] \o <<" ", "and", " ">> \o PromoterNames[3]
         \o AreThePromoters
SentencePage(n) == <<T("h2", <<"Company", " ", "Promoters">>), T("div", PromoterSentence(n))>>
SentencePages == {SentencePage(n) : n \in 2..3}
\* Pages with the dates of the issue
Year2026 == <<"2", "0", "2", "6">>
DateText(wd, mon, day) == <<wd, ",", " ", mon, " ">> \o day \o <<",", " ">> \o Year2026
OpensOn == DateText("Tue", "Jan", <<"2", "0">>)
ClosesOn == DateText("Thu", "Jan", <<"2", "2">>)
NoSuchDay == DateText("Mon", "Feb", <<"3", "0">>)
AndClosesOn == <<" ", "and", " ", "closes", " ", "on", " ">>
TwoDates == OpensOn \o AndClosesOn \o ClosesOn
DateCells == {OpensOn, ClosesOn, TwoDates}
DateTable(open, close) ==
    Table(<<E("tr", <<Td(<<"Issue", " ", "Open">>), Td(open)>>),
            E("tr", <<Td(<<"Issue", " ", "Close">>), Td(close)>>)>>)
DateCard(label, value) ==
    Tag("div", [class |-> <<"card">>], <<Tc("p", "text-muted", label), Tc("p", "fs-5", value)>>)
IpoDateTable(value) == Table(<<E("tr", <<Td(<<"IPO", " ", "Date">>), Td(value)>>)>>)
DayRange == <<"2", "0", " ", "to", " ", "2", "2", " ", "Jan", ",", " ">> \o Year2026
MonthRange ==
    <<"Jan", " ", "2", "0", ",", " ">> \o Year2026 \o <<" ", "to", " ", "Jan", " ", "2", "2", ",", " ">> \o Year2026
DatePages ==
    {DateTable(open, close) : open \in DateCells, close \in DateCells}
    \cup {<<DateCard(<<"Open", " ", "Date">>, TwoDates), DateCard(<<"Close", " ", "Date">>, TwoDates)>>,
          <<Tag("div", [class |-> <<"card">>], <<T("h5", <<"Issue", " ", "Close">>), Tc("p", "fs-5", TwoDates)>>)>>,
          DateTable(NoSuchDay \o AndClosesOn \o ClosesOn, OpensOn \o AndClosesOn \o NoSuchDay),
          DateTable(<<"Tuesday", ",", " ", "January", " ", "2", "0", ",", " ">> \o Year2026, <<"NA">>),
          IpoDateTable(DayRange), IpoDateTable(MonthRange), IpoDateTable(TwoDates)}
\* Pages with the size of the issue: the rows of the details table, with the
\* sale type before or after the amounts, and the summary block
CroreAmount(digits) == digits \o <<" ", "Cr">>
Hundred == <<"1", "0", "0">>
Thirty == <<"3", "0">>
Seventy == <<"7", "0">>
Forty == <<"4", "0">>
SaleTypes ==
    {<<"Offer", " ", "For", " ", "Sale">>, <<"Fresh", " ", "Issue">>,
     <<"Fresh", " ", "Issue", " ", "and", " ", "Offer", " ", "for", " ", "Sale">>, <<"Book", " ", "Building">>}
NoRow == <<>>
DetailRow(label, value) == <<E("tr", <<Td(label), Td(value)>>)>>
SaleRows == {DetailRow(<<"Sale", " ", "Type">>, st) : st \in SaleTypes}
TotalRows == {NoRow, DetailRow(<<"Total", " ", "Issue", " ", "Size">>, CroreAmount(Hundred))}
FreshRows == {NoRow, DetailRow(<<"Fresh", " ", "Issue">>, CroreAmount(Thirty))}
OfsRows == {NoRow, DetailRow(<<"Offer", " ", "for", " ", "Sale">>, CroreAmount(Seventy))}
OfsNarrative ==
    <<"The", " ", "issue", " ", "includes", " ", "an", " ", "offer", " ", "for", " ", "sale", " ", "of", " ",
      Rupee>> \o Forty \o <<" ", "crore", ".">>
SizeSummaries == {<<>>, Summary(<<P(OfsNarrative)>>)}
SizePage(before, total, fresh, ofs, after, summary) == Table(before \o total \o fresh \o ofs \o after) \o summary
SizePages ==
    {SizePage(before, total, fresh, ofs, after, summary) :
        before \in SaleRows \cup {NoRow}, total \in TotalRows, fresh \in FreshRows, ofs \in OfsRows,
        after \in {NoRow}, summary \in SizeSummaries}
    \cup {SizePage(NoRow, total, fresh, ofs, after, summary) :
            total \in TotalRows, fresh \in FreshRows, ofs \in OfsRows, after \in SaleRows,
            summary \in SizeSummaries}
    \cup {Table(DetailRow(<<"Issue", " ", "Size">>,
                    <<"5", "0", "0", " ", "shares", " ", "(", "agg", ".", " ", "up", " ", "to", " ", Rupee,
                      "1", ",", "0", "6", "9", " ", "Cr", ")">>)
                \o DetailRow(<<"Sale", " ", "Type">>, <<"OFS">>)),
          Table(DetailRow(<<"Issue", " ", "Size">>, CroreAmount(<<"0">>)) \o DetailRow(<<"Sale", " ", "Type">>, <<"Fresh", " ", "Issue">>)),
          Table(DetailRow(<<"Issue", " ", "Size">>, Hundred)) \o Summary(<<P(<<"An", " ", "Offer", " ", "For", " ", "Sale", " ", "of", " ",
                      "1", ",", "2", "0", "0", ".", "5", " ", "Crores">>)>>)}
\* Pages of links to documents: up to MaxLinks links, each with a target and a text
MaxLinks == 2
ElsewhereLink == <<"https:", "/", "/", "example.com", "/", "acme", ".", "html">>
Links ==
    {<<SebiLink, <<"RHP">>>>, <<RhpLink, <<"RHP">>>>, <<ElsewhereLink, <<"RHP">>>>,
     <<SebiLink, <<"Anchor", " ", "Investors">>>>}
LinkLists == UNION {[1..n -> Links] : n \in 1..MaxLinks}
LinkPage(ls) == [k \in 1..Len(ls) |-> Tag("a", [href |-> ls[k][1]], <<NavigableString(ls[k][2])>>)]
LinkPages == {LinkPage(ls) : ls \in LinkLists}
LeadManagerPages ==
    {<<T("h2", <<"IPO", " ", "Lead", " ", "Manager">>),
       E("div", <<E("ol", <<Li(AxisCapital \o <<" ", "(", "Past", " ", "IPO", " ", "Performance", ")">>),
                            Li(AxisSecurities), Li(AxisSecurities), Li(<<"Rao">>)>>)>>)>>,
     <<E("div", <<T("h2", <<"NCD", " ", "Lead", " ", "Manager">>),
                  E("ol", <<E("li", <<Tag("a", [href |-> Reviewed], <<NavigableString(AxisCapital)>>),
                                      NavigableString(<<" ", "Report">>)>>)>>)>>)>>,
     <<Tag("a", [href |-> Reviewed], <<NavigableString(AxisCapital)>>),
       Tag("a", [href |-> Reviewed], <<NavigableString(<<"IPO", " ", "Report">>)>>)>>,
     Table(<<E("tr", <<Td(<<"Lead", " ", "Manager">>), Td(AxisCapital \o <<",", " ", "Registrar">>)>>)>>)}
ObjectivePages ==
    {<<Tag("table", [id |-> "ObjectiveIssue"],
           <<E("tr", <<Th(<<"#">>), Th(<<"Issue", " ", "Objects">>), Th(<<"Est", " ", "Amt">>)>>),
             E("tr", <<Td(<<"1">>), Td(<<"Capital", " ", "expenditure">>), Td(<<"1", "2", ".", "5">>)>>),
             E("tr", <<Td(<<>>), Td(<<"General", " ", "purposes">>), Td(<<"NA">>)>>),
             E("tr", <<Td(<<"3">>)>>)>>)>>,
     <<Tag("table", [id |-> "ObjectiveIssue"], <<E("tr", <<Th(<<"#">>)>>)>>)>>,
     <<E("div", <<T("h2", <<"Objects", " ", "of", " ", "the", " ", "Issue">>),
                  E("ul", <<Li(Lending), Li(<<"Other">>)>>)>>)>>,
     <<E("div", <<T("h2", <<"Objects", " ", "of", " ", "the", " ", "Issue">>),
                  Tag("ul", [class |-> <<"top-ratios">>], <<Li(Lending)>>)>>)>>}
PeerPages ==
    {<<Tag("table", [id |-> "analysisTable"],
           <<E("tr", <<Th(<<"Company", " ", "Name">>), Th(<<"EPS", " ", "(", "Basic", ")">>),
                       Th(<<"P", "/", "E">>)>>),
             E("tr", <<Td(<<"Acme", " ", "Ltd">>), Td(<<"1", "2", ".", "5">>), Td(<<"NA">>)>>),
             E("tr", <<Td(<<" ">>), Td(<<"1">>), Td(<<"1">>)>>)>>)>>}
ReservationPages ==
    {<<Tag("div", [class |-> <<"card">>],
           <<T("h2", <<"IPO", " ", "Reservation">>),
             E("table", <<E("tr", <<Td(<<"QIB">>), Td(<<"1", ",", "0", "0", "0", " ", "(", "5", "0", ".", "0", "0", "%", ")">>)>>),
                          E("tr", <<Td(<<"Retail">>), Td(<<"NA">>)>>),
                          E("tr", <<Td(<<"Total">>)>>)>>)>>)>>,
     <<T("h2", <<"IPO", " ", "Reservation">>)>>}
\* Reservation tables of up to MaxRows rows: a label cell and a value cell
MaxRows == 2
ReservationLabels == {<<"QIB">>, <<"Retail">>, <<"Market", " ", "Maker">>}
Percent50 == <<"1", ",", "0", "0", "0", " ", "(", "5", "0", ".", "5", "%", ")">>
ReservationCells == {Percent50, <<"NA">>}
ReservationTable(rows) ==
    <<Tag("div", [class |-> <<"card">>],
          <<T("h2", <<"IPO", " ", "Reservation">>),
            E("table", [k \in 1..Len(rows) |-> E("tr", <<Td(rows[k][1]), Td(rows[k][2])>>)])>>)>>
ReservationRowSets == SeqsUpTo(ReservationLabels \X ReservationCells, MaxRows)
ReservationTables == {ReservationTable(rows) : rows \in ReservationRowSets}
ContactPages ==
    {<<Tag("div", [class |-> <<"card">>],
           <<T("h2", <<"Contact", " ", "Details">>),
             T("strong", <<"Acme", " ", "Ltd", " ", "Address">>),
             E("div", <<NavigableString(<<"1", "2", " ", "Main", " ", "Road">>)>>),
             Tag("ul", [class |-> <<"registrar-info">>],
                 <<E("li", <<Tag("i", [class |-> <<"fa-envelope">>], <<>>),
                             NavigableString(<<"info", "@", "acme", ".", "in">>)>>),
                   E("li", <<Tag("i", [class |-> <<"fa-phone">>], <<>>),
                             NavigableString(<<"0", "2", "2", " ", "1", "2", "3", "4", " ", "5", "6", "7", "8">>)>>),
                   E("li", <<Tag("a", [href |-> <<"https:", "/", "/", "acme", ".", "in">>],
                                 <<NavigableString(<<"Visit">>)>>)>>)>>)>>)>>,
     <<T("h2", <<"Contact", " ", "Details">>)>>}
ExchangePages ==
    {TopRatios(<<E("li", <<T("span", <<"Listing", " ", "At">>),
                           T("span", <<"BSE", ",", " ", "NSE", " ", "&", " ", "BSE", " ", "SME">>)>>)>>),
     Table(<<E("tr", <<Td(<<"Exchange">>), Td(<<"Acme">>)>>)>>)}
CouponPages ==
    {<<Tag("table", [id |-> "couponTable"],
           <<E("thead", <<E("tr", <<Th(<<"#">>), Th(<<"Series", " ", "1">>), Th(<<"Series", " ", "2">>)>>)>>),
             E("tbody", <<E("tr", <<Td(<<"Tenor">>), Td(<<"2", "4", " ", "Months">>), Td(<<"3", "6", " ", "Months">>)>>),
                          E("tr", <<Td(<<"Coupon">>), Td(<<"9", ".", "5", "%">>), Td(<<"NA">>)>>),
                          E("tr", <<Td(<<"Amount", " ", "on", " ", "Maturity">>), Td(<<"1", ",", "0", "0", "0">>)>>)>>)>>)>>,
     <<Tag("table", [id |-> "couponTable"],
           <<E("thead", <<E("tr", <<Th(<<"#">>), Th(<<"#">>)>>)>>), E("tbody", <<>>)>>)>>,
     <<Tag("table", [id |-> "couponTable"], <<E("tr", <<Th(<<"#">>)>>)>>)>>}
RatingPages ==
    {<<Tag("table", [id |-> "ncd_rating"],
           <<E("tr", <<Th(<<"#">>), Th(<<"Rating", " ", "Agency">>), Th(<<"NCD", " ", "Rating">>)>>),
             E("tr", <<Td(<<"1">>), Td(<<"CRISIL">>), Td(<<"AA">>)>>),
             E("tr", <<Td(<<"2">>)>>),
             E("tr", <<Td(<<"3">>), Td(<<>>), Td(<<>>), Td(<<"Stable">>)>>)>>)>>}
DocumentPages ==
    {<<Tag("a", [href |-> SebiLink], <<NavigableString(<<"Prospectus">>)>>),
       Tag("a", [href |-> RhpLink], <<NavigableString(<<"RHP">>)>>),
       Tag("a", [href |-> RhpLink], <<NavigableString(<<"SME", " ", "RHP">>)>>),
       Tag("a", [href |-> <<"/", "documents", "/">>], <<NavigableString(<<"Other">>)>>),
       Tag("a", [href |-> RhpLink], <<>>)>>}
ListPages ==
    SummaryPages \cup NarrativePages \cup PromoterPages \cup LeadManagerPages \cup ObjectivePages
    \cup PeerPages \cup ReservationPages \cup ContactPages \cup ExchangePages \cup CouponPages
    \cup RatingPages \cup DocumentPages \cup ReservationTables \cup SentencePages \cup DatePages \cup SizePages \cup LinkPages

EmptyPage == <<>>
TitledPage == <<T("h1", <<" ", "Acme", " ", "IPO", " ">>)>>

Pages == {EmptyPage, TitledPage} \cup LocatorPages \cup FinancialPages \cup FaqPages \cup ListPages

\* Source URLs
Site == <<"https:", "/", "/", "www.chittorgarh.com">>
IpoUrl == Site \o <<"/", "ipo", "/", "acme-ipo", "/", "2", "3", "4", "5", "/">>
NcdUrl == Site \o <<"/", "bond", "/", "acme-ncd", "/", "7", "1", "/">>
Urls ==
    {IpoUrl, NcdUrl,
     Site \o <<"/", "ipo", "/", "acme-ipo", "/", "2", "3", "4", "5">>,
     Site \o <<"/", "ipo", "/", "acme-ipo", "/">>,
     Site \o <<"/", "ipo", "/", "2", "3", "4", "5", "/">>,
     Site \o <<"/", "2", "3", "4", "5">>,
     Site \o <<"/", "bond", "/", "acme-ncd", "/">>,
     Site \o <<"/", "acme-ncd", "/">>,
     Site \o <<"/", "ipo", "/", "acme-ipo", "/", "2", "3", "4", "5", "a">>,
     Site \o <<"/", "ipo", "/">>}

\* Every page under the usual URL of its kind, every URL on two pages
Sources(usual) == ({usual} \X Pages) \cup (Urls \X {EmptyPage, TitledPage})

----------------------------------------------------------------------------
(* Single-document extraction *)

\* _scrape_ipo_from_soup(BeautifulSoup(html, "lxml"), url)
ScrapeIpoFromSoup ==
    /\ ext = IdleExt
    /\ \E src \in Sources(IpoUrl) :
          ext' = [kind |-> "ipo", url |-> src[1], html |-> src[2],
                  out |-> scrape_ipo_from_soup(BeautifulSoup(src[2]), src[1])]
    /\ UNCHANGED <<normVars, apiVars>>

\* _scrape_ncd_from_soup(BeautifulSoup(html, "lxml"), url)
ScrapeNcdFromSoup ==
    /\ ext = IdleExt
    /\ \E src \in Sources(NcdUrl) :
          ext' = [kind |-> "ncd", url |-> src[1], html |-> src[2],
                  out |-> scrape_ncd_from_soup(BeautifulSoup(src[2]), src[1])]
    /\ UNCHANGED <<normVars, apiVars>>

\* IPO.model_validate(raw) / NCD.model_validate(raw) on the returned dictionary
ModelValidate ==
    /\ ext.kind \in {"ipo", "ncd"}
    /\ ~IsRaised(ext.out)
    /\ ext' = [kind |-> "validated", of |-> ext.kind, url |-> ext.url, html |-> ext.html,
               raw |-> ext.out,
               out |-> IF ext.kind = "ipo" THEN IPO_model_validate(ext.out)
                       ELSE NCD_model_validate(ext.out)]
    /\ UNCHANGED <<normVars, apiVars>>

ReturnExt ==
    /\ ext # IdleExt
    /\ ext' = IdleExt
    /\ UNCHANGED <<normVars, apiVars>>

InitExtract == InitNorm
NextExtract == ScrapeIpoFromSoup \/ ScrapeNcdFromSoup \/ ModelValidate \/ ReturnExt
SpecExtract == InitExtract /\ [][NextExtract]_vars

----------------------------------------------------------------------------
(* The HTML cache and the download (app/scraper/fetcher.py) *)

\* A file named after the whole URL
PathOfWholeUrl(url) == url \o <<".html">>

\* get_html_file_path(url), get_metadata_file_path(url): the files are named
\* after the last path segment
get_html_file_path(url) == LastSegment(url) \o <<".html">>
get_metadata_file_path(url) == LastSegment(url) \o <<".json">>

\* The newline translation of a text read in text mode (newline=None): a
\* carriage return, with the line feed after it if there is one, becomes one
\* line feed
RECURSIVE Universal(_)
Universal(s) ==
    IF s = <<>> THEN <<>>
    ELSE IF s[1] = "CR" /\ Len(s) > 1 /\ s[2] = "LF" THEN <<"LF">> \o Universal(Tail(Tail(s)))
    ELSE IF s[1] = "CR" THEN <<"LF">> \o Universal(Tail(s))
    ELSE <<s[1]>> \o Universal(Tail(s))

\* Path.write_text(html, encoding="utf-8") where os.linesep is the line
\* feed: the characters are written as they are
write_text(html) == html

\* Path.read_text(encoding="utf-8"): the strings of the saved page with
\* their newlines translated
RECURSIVE ReadNodes(_)
ReadNode(node, kids) ==
    [tag |-> node.tag, at |-> node.at, kids |-> kids, text |-> Universal(node.text)]
ReadNodes(nodes) == [j \in 1..Len(nodes) |-> ReadNode(nodes[j], ReadNodes(nodes[j].kids))]
read_text(data) == ReadNodes(data)

\* len(html), counted in atoms and tags
RECURSIVE PageLen(_)
PageLen(nodes) ==
    IF nodes = <<>> THEN 0
    ELSE 1 + Len(nodes[1].text) + PageLen(nodes[1].kids) + PageLen(Tail(nodes))

\* load_html(url): the saved text, None when there is no file
load_html(files, url) ==
    IF get_html_file_path(url) \in DOMAIN files
    THEN Str(read_text(files[get_html_file_path(url)]))
    ELSE None

\* load_metadata(url): the saved dictionary, None when there is no file
load_metadata(files, url) ==
    IF get_metadata_file_path(url) \in DOMAIN files THEN files[get_metadata_file_path(url)]
    ELSE None

\* The files after path has been written with data
Written(files, path, data) ==
    [f \in DOMAIN files \cup {path} |-> IF f = path THEN data ELSE files[f]]

\* metadata with "saved_at" and "url" set
Stamped(metadata, url, now) ==
    [content_length |-> metadata.content_length, status_code |-> metadata.status_code,
     content_type |-> metadata.content_type, saved_at |-> now, url |-> url]

\* save_html(url, html, metadata) at the clock reading now: the files after
\* the writes; metadata is a dictionary or None
save_html(files, url, html, metadata, now) ==
    IF metadata = None THEN Written(files, get_html_file_path(url), write_text(html))
    ELSE Written(Written(files, get_html_file_path(url), write_text(html)),
                 get_metadata_file_path(url), Stamped(metadata, url, now))

\* What the site answers to requests.get(url): a page, or a failure
\* (a connection error, a timeout, or a status raise_for_status() rejects)
Failure == [ok |-> FALSE]
Page(html) == [ok |-> TRUE, text |-> html, status_code |-> 200, content_type |-> "text/html"]

\* The metadata dictionary of download_html
MetadataOf(html, response, save_metadata) ==
    IF save_metadata
    THEN [content_length |-> PageLen(html), status_code |-> response.status_code,
          content_type |-> response.content_type]
    ELSE None

\* A download that saves what it has before it raises: an empty file
DownloadedSavingFirst(files, url, cached_html, response, save_metadata, now) ==
    IF Truthy(cached_html) THEN [html |-> cached_html, files |-> files, fetched |-> FALSE]
    ELSE IF ~response.ok
         THEN [html |-> Raised("HTTPError"),
               files |-> Written(files, get_html_file_path(url), <<>>), fetched |-> TRUE]
    ELSE [html |-> Str(response.text),
          files |-> save_html(files, url, response.text,
                              MetadataOf(response.text, response, save_metadata), now),
          fetched |-> TRUE]

\* download_html(url, use_cache, save_metadata) at the clock reading now: the
\* text or the exception, the files afterwards, and whether requests.get ran
Downloaded(files, url, cached_html, response, save_metadata, now) ==
    IF Truthy(cached_html) THEN [html |-> cached_html, files |-> files, fetched |-> FALSE]
    ELSE IF ~response.ok THEN [html |-> Raised("HTTPError"), files |-> files, fetched |-> TRUE]
    ELSE [html |-> Str(response.text),
          files |-> save_html(files, url, response.text,
                              MetadataOf(response.text, response, save_metadata), now),
          fetched |-> TRUE]
download_html(files, answers, url, use_cache, save_metadata, now) ==
    Downloaded(files, url, IF use_cache THEN load_html(files, url) ELSE None, answers[url],
               save_metadata, now)

----------------------------------------------------------------------------
(* The endpoints (app/api/ipo.py, app/api/ncd.py) *)

\* The URLs and pages of the requests
OtherIpoUrl == Site \o <<"/", "ipo", "/", "other-ipo", "/", "2", "3", "4", "5">>
ApiUrls == {IpoUrl, OtherIpoUrl, NcdUrl}
\* A page that extracts and validates, one whose FAQ item has neither a
\* question nor a body, one whose financial period is not a date
GoodPage == TitledPage
BrokenPage == FaqSection(<<Accordion(<<T("span", <<"Answer1">>)>>)>>)
UndatedPage == FinancialTable(<<PeriodEnded, FY2025>>, FullRows(1))
ApiPages == {GoodPage, BrokenPage, UndatedPage}
Answers == {Failure} \cup {Page(h) : h \in ApiPages}
Kinds == {"ipo", "ncd"}

\* _scrape_ipo_from_soup / _scrape_ncd_from_soup on the parsed text, computed
\* once for the pages of the requests
Extracted ==
    [k \in Kinds |-> [u \in ApiUrls |-> [h \in ApiPages |->
        IF k = "ipo" THEN scrape_ipo_from_soup(BeautifulSoup(h), u)
        ELSE scrape_ncd_from_soup(BeautifulSoup(h), u)]]]

\* scrape_ipo(url) / scrape_ncd(url): the dictionary or the exception, and
\* the files afterwards
Scraped(k, url, d) ==
    [raw |-> IF IsRaised(d.html) THEN d.html ELSE Extracted[k][url][d.html.v], files |-> d.files]
\* download_html(url) is called with its defaults; the endpoints never read
\* the saved metadata, whose saved_at is written as 0 here
scrape(k, files, answers, url) ==
    Scraped(k, url, download_html(files, answers, url, TRUE, TRUE, 0))

\* IPO.model_validate / NCD.model_validate
model_validate(k, raw) == IF k = "ipo" THEN IPO_model_validate(raw) ELSE NCD_model_validate(raw)

\* An entry of the batch response
ScrapeBatchItem(url, data, error) == [url |-> url, data |-> data, error |-> error]

\* The loop body with the exception swallowed: no entry for a failing URL
LoopBodyDropping(k, res, u, raw) ==
    IF IsRaised(raw) THEN res
    ELSE IF IsRaised(model_validate(k, raw)) THEN res
    ELSE Append(res, ScrapeBatchItem(u, model_validate(k, raw), None))

\* The body of the loop of scrape_ipo_batch / scrape_ncd_batch, given what
\* scrape_ipo(u) / scrape_ncd(u) did: the results after the iteration
LoopBody(k, res, u, raw) ==
    IF IsRaised(raw) THEN Append(res, ScrapeBatchItem(u, None, Str(<<raw.e>>)))
    ELSE IF IsRaised(model_validate(k, raw))
         THEN Append(res, ScrapeBatchItem(u, None, Str(<<model_validate(k, raw).e>>)))
    ELSE Append(res, ScrapeBatchItem(u, model_validate(k, raw), None))

\* The whole batch from given files: the entries and the files afterwards
RECURSIVE RunBatch(_, _, _, _)
Iterated(k, res, u, s) == [results |-> LoopBody(k, res, u, s.raw), files |-> s.files]
IterateAfter(k, before, answers, u) ==
    Iterated(k, before.results, u, scrape(k, before.files, answers, u))
RunBatch(k, us, files, answers) ==
    IF us = <<>> THEN [results |-> <<>>, files |-> files]
    ELSE IterateAfter(k, RunBatch(k, SubSeq(us, 1, Len(us) - 1), files, answers), answers,
                      us[Len(us)])

\* The longest batch
MaxBatch == 3
Batches == UNION {[1..n -> ApiUrls] : n \in 1..MaxBatch}

\* POST /ipo/scrape/batch, POST /ncd/scrape/batch: the request arrives
ScrapeBatch ==
    /\ kind = "none" /\ resp = IdleResp
    /\ \E k \in Kinds, us \in Batches :
          /\ kind' = k
          /\ urls' = us
    /\ i' = 1
    /\ results' = <<>>
    /\ cache0' = cache
    /\ UNCHANGED <<normVars, extVars, cache, net, resp>>

\* results.append(...) for what the scrape of urls[i] did, and the files it left
Iterate(s) ==
    /\ results' = LoopBody(kind, results, urls[i], s.raw)
    /\ cache' = s.files

\* One iteration of "for u in body.urls"
BatchStep ==
    /\ kind \in Kinds
    /\ i <= Len(urls)
    /\ Iterate(scrape(kind, cache, net, urls[i]))
    /\ i' = i + 1
    /\ UNCHANGED <<normVars, extVars, urls, kind, net, cache0, resp>>

\* return results
ReturnBatch ==
    /\ kind \in Kinds
    /\ i > Len(urls)
    /\ resp' = [kind |-> "batch", of |-> kind, urls |-> urls, body |-> results]
    /\ kind' = "none" /\ urls' = <<>> /\ i' = 0 /\ results' = <<>> /\ cache0' = <<>>
    /\ UNCHANGED <<normVars, extVars, cache, net>>

\* The response to the scrape s of u, and the files it left
Single(k, u, s) ==
    /\ resp' = [kind |-> "single", of |-> k, url |-> u, raw |-> s.raw,
                body |-> IF IsRaised(s.raw) THEN s.raw ELSE model_validate(k, s.raw)]
    /\ cache' = s.files

\* GET /ipo/scrape, GET /ncd/scrape: scrape_ipo(url) / scrape_ncd(url), the
\* returned dictionary serialised through the response model
ScrapeSingle ==
    /\ kind = "none" /\ resp = IdleResp
    /\ \E k \in Kinds, u \in ApiUrls :
          Single(k, u, scrape(k, cache, net, u))
    /\ UNCHANGED <<normVars, extVars, urls, i, results, kind, net, cache0>>

\* The response leaves; the files stay
Respond ==
    /\ resp # IdleResp
    /\ resp' = IdleResp
    /\ UNCHANGED <<normVars, extVars, urls, i, results, kind, cache, net, cache0>>

\* No file is saved yet; the site's answers are any
Init ==
    /\ call = NoCall
    /\ ext = IdleExt
    /\ urls = <<>> /\ i = 0 /\ results = <<>> /\ kind = "none" /\ resp = IdleResp
    /\ cache = <<>> /\ cache0 = <<>>
    /\ net \in [ApiUrls -> Answers]

Next == ScrapeBatch \/ BatchStep \/ ReturnBatch \/ ScrapeSingle \/ Respond

Spec == Init /\ [][Next]_vars

----------------------------------------------------------------------------
(* Properties of the batch endpoints *)

\* C1: in every batch, IPO or NCD, the results hold one entry per URL taken
\* so far, the k-th entry carrying the k-th URL of the request; the returned
\* list has as many entries as the request has URLs, whichever of them
\* failed to download, to extract or to validate.
C1_OneEntryPerUrl ==
    /\ kind \in Kinds =>
          /\ Len(results) = i - 1
          /\ \A k \in 1..Len(results) : results[k].url = urls[k]
    /\ resp.kind = "batch" =>
          /\ Len(resp.body) = Len(resp.urls)
          /\ \A k \in 1..Len(resp.body) : resp.body[k].url = resp.urls[k]

\* A returned batch of three URLs of which one failed to download, one
\* failed validation and one gave a record
C1_Witness ==
    /\ resp.kind = "batch"
    /\ Len(resp.urls) = 3
    /\ \E a, b, c \in 1..3 :
          /\ resp.body[a].error = Str(<<"HTTPError">>)
          /\ resp.body[b].error = Str(<<"ValidationError">>)
          /\ resp.body[c].error = None /\ resp.body[c].data # None

\* C2: at the end of a batch every entry holds exactly one of a record and
\* an error message, and the entries of the URLs other than a failing one
\* are those of the batch without the failing URL, run from the same files.
C2_FailureIsolated ==
    (kind \in Kinds /\ i > Len(urls)) =>
        /\ \A k \in 1..Len(results) : (results[k].data = None) # (results[k].error = None)
        /\ \A k \in 1..Len(results) :
              results[k].error # None =>
                  RunBatch(kind, SelectSeq(urls, LAMBDA u : u # urls[k]), cache0, net).results
                      = SelectSeq(results, LAMBDA r : r.url # urls[k])

----------------------------------------------------------------------------
(* Properties of single-document extraction *)

\* The URL holds an integer last segment and the segment of its kind
WellFormedUrl(k, url) ==
    /\ IsIntText(LastSegment(url))
    /\ IndexOf(<<"/", IF k = "ipo" THEN "ipo" ELSE "bond", "/">>, url) # 0

\* The three locators of a label, and the value of the first that has one
FirstLocated(soup, label) ==
    LET li == get_value_by_label_in_li(soup, label)
        td == get_value_by_label_contains(soup, label)
        card == get_value_from_cards(soup, label)
    IN IF Truthy(li) THEN li ELSE IF Truthy(td) THEN td ELSE card

\* C3: the raw value of a scalar field is the value of the first locator, in
\* the order labeled list, definition table, card pair, that found a
\* non-empty text; a later locator's value is used only when every earlier
\* one found nothing or empty text.
C3_FirstLocatorWins ==
    /\ (ext.kind = "ipo" /\ ~IsRaised(ext.out)) =>
          ext.out.v.issue_type = FirstLocated(BeautifulSoup(ext.html), IssueTypeLabel)
    /\ (ext.kind = "ncd" /\ ~IsRaised(ext.out)) =>
          ext.out.v.security_type = FirstLocated(BeautifulSoup(ext.html), SecurityTypeLabel)

\* A page without a labeled-list value whose table cell and card pair hold
\* different values: the record has the table's
C3_Witness ==
    /\ ext.kind = "ipo" /\ ~IsRaised(ext.out)
    /\ LET soup == BeautifulSoup(ext.html)
           li == get_value_by_label_in_li(soup, IssueTypeLabel)
           td == get_value_by_label_contains(soup, IssueTypeLabel)
           card == get_value_from_cards(soup, IssueTypeLabel)
       IN /\ ~Truthy(li) /\ Truthy(td) /\ Truthy(card) /\ td # card
          /\ ext.out.v.issue_type = td

\* C4: for the IPO and the NCD assembler, a URL whose last segment is no
\* integer or that lacks the /ipo/ resp. /bond/ segment makes the extraction
\* fail and produce no record.
C4_MalformedUrlFails ==
    (ext.kind \in Kinds /\ ~WellFormedUrl(ext.kind, ext.url)) => IsRaised(ext.out)

\* C5: with a well-formed URL the extraction of a page never raises.
C5_ExtractionNeverRaises ==
    (ext.kind \in Kinds /\ WellFormedUrl(ext.kind, ext.url)) => ~IsRaised(ext.out)

\* C6: in every record the IPO or the NCD assembler produces, every
\* list-valued field is a list, empty when the page has no such content,
\* and never None.
C6_ListsNeverNone ==
    (ext.kind \in Kinds /\ ~IsRaised(ext.out)) =>
        \A f \in (IF ext.kind = "ipo" THEN IPOListFields ELSE NCDListFields) :
            IsList(ext.out.v[f])

\* A record with products found and, without their sections, empty lists of
\* strengths and weaknesses
C6_Witness ==
    /\ ext.kind = "ipo" /\ ~IsRaised(ext.out)
    /\ ext.out.v.products.v # <<>>
    /\ ext.out.v.strengths = List(<<>>)
    /\ ext.out.v.weaknesses = List(<<>>)

\* C7: with a well-formed URL, a record the assembler produced always passes
\* the validation of its schema.
C7_RecordAlwaysValid ==
    (ext.kind = "validated" /\ WellFormedUrl(ext.of, ext.url)) => ~IsRaised(ext.out)

----------------------------------------------------------------------------
(* The exchange codes of a combined cell *)

\* The cell text a call was made with reads "a / b" or "a / b / ..."
ReadsAs(a, b) ==
    /\ call.arg.t = "str"
    /\ \E pre \in 0..1, l \in 0..MaxGap, r \in 0..MaxGap,
          rest \in {<<>>, <<" ">>, <<"/", "X">>, <<" ", "/", " ", "X">>} :
          call.arg.v = Blanks(pre) \o CodeCell(a, l, r, b) \o rest

\* C11: splitting a combined exchange-code cell on the slash gives the first
\* token as the numeric code only when it is all digits (None otherwise), and
\* the second token as it stands as the symbolic code (None when the cell has
\* no slash, hence no second token).
C11_CodesOfCell ==
    call.fn = "_parse_bse_nse" =>
        /\ \A a \in CodeTokens, b \in CodeTokens :
              ReadsAs(a, b) =>
                 /\ call.ret.bse = (IF a # <<>> /\ \A j \in 1..Len(a) : a[j] \in Digits
                                    THEN Str(a) ELSE None)
                 /\ call.ret.nse = Str(b)
        /\ \A a \in CodeTokens \ {<<>>} :
              call.arg = Str(a) =>
                 /\ call.ret.bse = (IF \A j \in 1..Len(a) : a[j] \in Digits THEN Str(a) ELSE None)
                 /\ call.ret.nse = None

\* A cell whose first token is not a number and whose second token is a symbol
C11_Witness ==
    /\ call.fn = "_parse_bse_nse"
    /\ ReadsAs(<<"5", "A">>, <<"BHARATCOAL">>)
    /\ call.ret = Codes(None, Str(<<"BHARATCOAL">>))

----------------------------------------------------------------------------
(* The reservation record *)

\* The category a row label of the tables above stands for
CategoryOf(label) ==
    CASE label = <<"QIB">> -> "qib"
      [] label = <<"Retail">> -> "retail"
      [] OTHER -> "none"
\* The rows of a category, and whether the last of them shows a percentage
RowsOf(rows, key) == {k \in 1..Len(rows) : CategoryOf(rows[k][1]) = key}
LastShowsPercent(rows, key) ==
    \E k \in RowsOf(rows, key) : (\A k2 \in RowsOf(rows, key) : k2 <= k) /\ rows[k][2] = Percent50
\* The record the extraction or the validation gave, when it gave one
IpoRecordOf(e) ==
    IF e.kind = "ipo" /\ ~IsRaised(e.out) THEN {e.out}
    ELSE IF e.kind = "validated" /\ e.of = "ipo" /\ ~IsRaised(e.out) THEN {e.out}
    ELSE {}

\* C12: every reservation record of the IPO record has each declared category
\* key, with a number for it; the number is 0, never None, when the table has
\* no row of the category or the cell of its row shows no percentage.
C12_ReservationDefaults ==
    \A rec \in IpoRecordOf(ext) :
        /\ \A k \in 1..Len(rec.v.reservations.v) :
              /\ DOMAIN rec.v.reservations.v[k] =
                    {"qib", "anchor", "ex_anchor", "nii", "bnii", "snii", "retail", "employee",
                     "shareholder", "other", "total"}
              /\ \A key \in DOMAIN rec.v.reservations.v[k] :
                    rec.v.reservations.v[k][key].t \in {"int", "num"}
        /\ \A rows \in ReservationRowSets :
              ext.html = ReservationTable(rows) =>
                 /\ Len(rec.v.reservations.v) = 1
                 /\ \A key \in DOMAIN rec.v.reservations.v[1] :
                       ~LastShowsPercent(rows, key) => rec.v.reservations.v[1][key] = PyInt(0)

\* A table with a percentage for QIB, none for Retail and no row for Total
C12_Witness ==
    /\ ext.kind = "validated" /\ ext.of = "ipo" /\ ~IsRaised(ext.out)
    /\ ext.html = ReservationTable(<<<<<<"QIB">>, Percent50>>, <<<<"Retail">>, <<"NA">>>>>>)
    /\ ext.out.v.reservations.v[1].qib = Num(Dec(505, 1))
    /\ ext.out.v.reservations.v[1].retail = PyInt(0)
    /\ ext.out.v.reservations.v[1].total = PyInt(0)

\* The record of the NCD assembler or of its validation, when it gave one
NcdRecordOf(e) ==
    IF e.kind = "ncd" /\ ~IsRaised(e.out) THEN {e.out}
    ELSE IF e.kind = "validated" /\ e.of = "ncd" /\ ~IsRaised(e.out) THEN {e.out}
    ELSE {}
NamesOf(n) == List([j \in 1..n |-> PromoterNames[j]])

\* C13: a sentence "X and Y are the company promoters." gives the promoters
\* [X, Y] and "X, Y and Z are the company promoters." gives [X, Y, Z], in the
\* IPO record and in the NCD record.
C13_NamesOfSentence ==
    \A rec \in IpoRecordOf(ext) \cup NcdRecordOf(ext) :
        \A n \in 2..3 : ext.html = SentencePage(n) => rec.v.promoters = NamesOf(n)

\* The two assemblers taken apart, and the two sentences
C13_InNcd ==
    \A rec \in NcdRecordOf(ext) : \A n \in 2..3 : ext.html = SentencePage(n) => rec.v.promoters = NamesOf(n)
C13_TwoInIpo == \A rec \in IpoRecordOf(ext) : ext.html = SentencePage(2) => rec.v.promoters = NamesOf(2)
C13_ThreeInIpoJoined ==
    \A rec \in IpoRecordOf(ext) :
        ext.html = SentencePage(3) =>
            rec.v.promoters =
                List(<<PromoterNames[1] \o <<",", " ">> \o PromoterNames[2], PromoterNames[3]>>)

OpenOf(rec) == IF "issue_open_date" \in DOMAIN rec.v THEN rec.v.issue_open_date ELSE rec.v.open_date
CloseOf(rec) == IF "issue_close_date" \in DOMAIN rec.v THEN rec.v.issue_close_date ELSE rec.v.close_date
FirstAndLast(rec, open, close) ==
    /\ open = TwoDates => OpenOf(rec) = Date(2026, 1, 20)
    /\ close = TwoDates => CloseOf(rec) = Date(2026, 1, 22)

\* C14: when the text found for a date label holds two embedded canonical
\* dates, the open date of the record is the first of them and the close date
\* is the last of them, in the IPO record and in the NCD record.
C14_FirstAndLast ==
    \A rec \in IpoRecordOf(ext) \cup NcdRecordOf(ext) :
        \A open \in DateCells, close \in DateCells :
            ext.html = DateTable(open, close) => FirstAndLast(rec, open, close)

\* The NCD assembler does so; the IPO assembler takes the first date for both
C14_InNcd ==
    \A rec \in NcdRecordOf(ext) :
        \A open \in DateCells, close \in DateCells :
            ext.html = DateTable(open, close) => FirstAndLast(rec, open, close)
C14_FirstForBothInIpo ==
    \A rec \in IpoRecordOf(ext) :
        \A open \in DateCells :
            ext.html = DateTable(open, TwoDates) =>
                /\ open = TwoDates => rec.v.issue_open_date = Date(2026, 1, 20)
                /\ rec.v.issue_close_date = Date(2026, 1, 20)

\* C15: with no date under the open and close labels and a cell 'IPO Date'
\* holding "20 to 22 Jan, 2026", the IPO record has the open date 2026-01-20
\* and the close date 2026-01-22.
C15_RangeOfDays ==
    \A rec \in IpoRecordOf(ext) :
        ext.html = IpoDateTable(DayRange) =>
            /\ rec.v.issue_open_date = Date(2026, 1, 20)
            /\ rec.v.issue_close_date = Date(2026, 1, 22)

\* parse_date refuses the texts "20 Jan 2026" and "Jan 20, 2026" the range
\* patterns build, so neither range form gives a date
C15_RangeGivesNone ==
    \A rec \in IpoRecordOf(ext) :
        ext.html \in {IpoDateTable(DayRange), IpoDateTable(MonthRange)} =>
            /\ rec.v.issue_open_date = None
            /\ rec.v.issue_close_date = None
\* The groups the two patterns find in the two range texts
C15_RangesAreFound ==
    /\ RangeSearch1(DayRange, 1) = <<<<"2", "0">>, <<"2", "2">>, <<"Jan">>, Year2026>>
    /\ DayMonthYear(RangeSearch1(DayRange, 1), TRUE) = <<"2", "2", " ", "Jan", " ">> \o Year2026
    /\ RangeSearch2(MonthRange, 1, FALSE) = <<"Jan", " ", "2", "0", ",", " ">> \o Year2026
    /\ RangeSearch2(MonthRange, 1, TRUE) = <<"Jan", " ", "2", "2", ",", " ">> \o Year2026
    /\ RangeSearch1(MonthRange, 1) = <<>>
\* Dates of the other layouts
C14_OtherLayouts ==
    \A rec \in IpoRecordOf(ext) :
        /\ ext.html = DateTable(<<"Tuesday", ",", " ", "January", " ", "2", "0", ",", " ">> \o Year2026, <<"NA">>)
              => rec.v.issue_open_date = Date(2026, 1, 20) /\ rec.v.issue_close_date = None
        /\ ext.html = DateTable(NoSuchDay \o AndClosesOn \o ClosesOn, OpensOn \o AndClosesOn \o NoSuchDay)
              => rec.v.issue_open_date = Date(2026, 1, 22) /\ rec.v.issue_close_date = Date(2026, 1, 20)
        /\ ext.html = <<DateCard(<<"Open", " ", "Date">>, TwoDates), DateCard(<<"Close", " ", "Date">>, TwoDates)>>
              => rec.v.issue_open_date = Date(2026, 1, 20) /\ rec.v.issue_close_date = Date(2026, 1, 20)
C14_OtherLayoutsNcd ==
    \A rec \in NcdRecordOf(ext) :
        /\ ext.html = DateTable(NoSuchDay \o AndClosesOn \o ClosesOn, OpensOn \o AndClosesOn \o NoSuchDay)
              => rec.v.open_date = None /\ rec.v.close_date = None
        /\ ext.html = <<DateCard(<<"Open", " ", "Date">>, TwoDates), DateCard(<<"Close", " ", "Date">>, TwoDates)>>
              => rec.v.open_date = Date(2026, 1, 20) /\ rec.v.close_date = Date(2026, 1, 22)
        /\ ext.html = <<Tag("div", [class |-> <<"card">>],
                            <<T("h5", <<"Issue", " ", "Close">>), Tc("p", "fs-5", TwoDates)>>)>>
              => rec.v.open_date = None /\ rec.v.close_date = Date(2026, 1, 22)

SaleRow(st) == DetailRow(<<"Sale", " ", "Type">>, st)
\* What the record must hold on a page of the issue size, by the rows of the page
SplitOfRows(rec, sale, total, fresh, ofs) ==
    /\ fresh # NoRow => rec.v.fresh_issue_crore = Num(Dec(30, 0))
    /\ ofs # NoRow => rec.v.ofs_issue_crore = Num(Dec(70, 0))
    /\ fresh # NoRow /\ ofs = NoRow => rec.v.ofs_issue_crore \notin {Num(Dec(100, 0)), PyInt(0)}
    /\ fresh = NoRow /\ ofs # NoRow => rec.v.fresh_issue_crore \notin {Num(Dec(100, 0)), PyInt(0)}
    /\ fresh = NoRow /\ ofs = NoRow /\ total # NoRow /\ sale = SaleRow(<<"Offer", " ", "For", " ", "Sale">>) =>
          rec.v.ofs_issue_crore = rec.v.issue_size_crore /\ rec.v.fresh_issue_crore = PyInt(0)
    /\ fresh = NoRow /\ ofs = NoRow /\ total # NoRow /\ sale = SaleRow(<<"Fresh", " ", "Issue">>) =>
          rec.v.fresh_issue_crore = rec.v.issue_size_crore /\ rec.v.ofs_issue_crore = PyInt(0)
    /\ total # NoRow => rec.v.issue_size_crore = Num(Dec(100, 0))

\* C16: a labeled fresh-issue or offer-for-sale amount is the value of the
\* record and the sale type is then not used; with neither labeled, a non-zero
\* total and a sale type naming one component, that component is the total and
\* the other is 0, so that the two add up to the total.
C16_LabelsThenSaleType ==
    \A rec \in IpoRecordOf(ext) :
        \A sale \in SaleRows \cup {NoRow}, total \in TotalRows, fresh \in FreshRows, ofs \in OfsRows,
           summary \in SizeSummaries :
            ext.html \in {SizePage(sale, total, fresh, ofs, NoRow, summary),
                          SizePage(NoRow, total, fresh, ofs, sale, summary)} =>
                SplitOfRows(rec, sale, total, fresh, ofs)

\* The same with the sale type below the amounts, or absent
C16_SaleTypeBelow ==
    \A rec \in IpoRecordOf(ext) :
        \A sale \in SaleRows \cup {NoRow}, total \in TotalRows, fresh \in FreshRows, ofs \in OfsRows,
           summary \in SizeSummaries :
            ext.html = SizePage(NoRow, total, fresh, ofs, sale, summary) =>
                SplitOfRows(rec, sale, total, fresh, ofs)
\* With the sale type above the amounts, the cell of the sale type is the first
\* cell that names the label and it has no cell after it: the labeled amounts
\* are not found and the sale type decides
C16_SaleTypeAbove ==
    \A rec \in IpoRecordOf(ext) :
        ext.html = SizePage(SaleRow(<<"Fresh", " ", "Issue", " ", "and", " ", "Offer", " ", "for", " ", "Sale">>),
                            DetailRow(<<"Total", " ", "Issue", " ", "Size">>, CroreAmount(Hundred)),
                            DetailRow(<<"Fresh", " ", "Issue">>, CroreAmount(Thirty)),
                            DetailRow(<<"Offer", " ", "for", " ", "Sale">>, CroreAmount(Seventy)), NoRow, <<>>) =>
            /\ rec.v.issue_size_crore = Num(Dec(100, 0))
            /\ rec.v.fresh_issue_crore = PyInt(0)
            /\ rec.v.ofs_issue_crore = Num(Dec(100, 0))

\* The pages where neither amount is labeled, the sale type names no
\* component, the total is 100 crore and the summary tells of an offer for
\* sale of 40 crore
NarrativeOnlyPages ==
    {SizePage(before, DetailRow(<<"Total", " ", "Issue", " ", "Size">>, CroreAmount(Hundred)), NoRow, NoRow, after,
              Summary(<<P(OfsNarrative)>>)) :
        before \in {NoRow, SaleRow(<<"Book", " ", "Building">>)}, after \in {NoRow, SaleRow(<<"Book", " ", "Building">>)}}

\* C17: when the offer for sale comes from the narrative because neither
\* amount is labeled, it is the amount of the narrative, and the fresh issue
\* is None or the total less that amount, never another value.
C17_FreshUnsetOrRest ==
    \A rec \in IpoRecordOf(ext) :
        ext.html \in NarrativeOnlyPages =>
            /\ rec.v.ofs_issue_crore = Num(Dec(40, 0))
            /\ rec.v.fresh_issue_crore \in {None, Num(Dec(60, 0))}

\* The fresh issue is set to 0 there
C17_FreshIsZero ==
    \A rec \in IpoRecordOf(ext) :
        ext.html \in NarrativeOnlyPages =>
            /\ rec.v.issue_size_crore = Num(Dec(100, 0))
            /\ rec.v.ofs_issue_crore = Num(Dec(40, 0))
            /\ rec.v.fresh_issue_crore = PyInt(0)
\* The amounts of the other summaries and sizes
C17_OtherAmounts ==
    \A rec \in IpoRecordOf(ext) :
        /\ ext.html = Table(DetailRow(<<"Issue", " ", "Size">>, Hundred))
                      \o Summary(<<P(<<"An", " ", "Offer", " ", "For", " ", "Sale", " ", "of", " ",
                                      "1", ",", "2", "0", "0", ".", "5", " ", "Crores">>)>>)
              => rec.v.issue_size_crore = Num(Dec(100, 0)) /\ rec.v.ofs_issue_crore = Num(Dec(12005, 1))
        /\ ext.html = Table(DetailRow(<<"Issue", " ", "Size">>, CroreAmount(<<"0">>))
                            \o DetailRow(<<"Sale", " ", "Type">>, <<"Fresh", " ", "Issue">>))
              => rec.v.issue_size_crore = Num(Dec(0, 0)) /\ rec.v.fresh_issue_crore = None
        /\ ext.html = Table(DetailRow(<<"Issue", " ", "Size">>,
                                      <<"5", "0", "0", " ", "shares", " ", "(", "agg", ".", " ", "up", " ", "to",
                                        " ", Rupee, "1", ",", "0", "6", "9", " ", "Cr", ")">>)
                            \o DetailRow(<<"Sale", " ", "Type">>, <<"OFS">>))
              => rec.v.issue_size_crore = Num(Dec(1069, 0)) /\ rec.v.ofs_issue_crore = Num(Dec(1069, 0))

\* The field of the record for the text of a link of the pages of links
FieldOfText(t) ==
    CASE t = <<"RHP">> -> "rhp_url"
      [] OTHER -> "anchor_list_url"
DocFields == {"drhp_url", "rhp_url", "final_prospectus_url", "anchor_list_url"}
OnAllowlist(h) == h \in {SebiLink, RhpLink}
\* The allowlisted links of the list that are filed under the field
LinksFor(ls, field) == {k \in 1..Len(ls) : OnAllowlist(ls[k][1]) /\ FieldOfText(ls[k][2]) = field}
AbsoluteUrl(h) == IF h = RhpLink THEN <<"https:", "/", "/", "www.chittorgarh.com">> \o h ELSE h

\* C18: the links are read in document order and the first allowlisted link of
\* a category gives the URL of the category; a later link of the category does
\* not take its place.
C18_FirstLinkWins ==
    \A rec \in IpoRecordOf(ext) :
        \A ls \in LinkLists :
            ext.html = LinkPage(ls) =>
                \A field \in DocFields :
                    LinksFor(ls, field) # {} =>
                        rec.v[field] = Str(AbsoluteUrl(ls[Least(LinksFor(ls, field))][1]))

\* The last allowlisted link of the category gives the URL
C18_LastLinkWins ==
    \A rec \in IpoRecordOf(ext) :
        \A ls \in LinkLists :
            ext.html = LinkPage(ls) =>
                \A field \in DocFields :
                    LinksFor(ls, field) # {} =>
                        rec.v[field] = Str(AbsoluteUrl(ls[Greatest(LinksFor(ls, field))][1]))

\* C19: each of drhp_url, rhp_url, final_prospectus_url and anchor_list_url is
\* None or the target of an allowlisted link of the page; a link whose target
\* is not on the allowlist is never reported, whatever its text.
C19_OnlyAllowlisted ==
    \A rec \in IpoRecordOf(ext) :
        \A ls \in LinkLists :
            ext.html = LinkPage(ls) =>
                \A field \in DocFields :
                    \/ rec.v[field] = None
                    \/ \E k \in 1..Len(ls) :
                          OnAllowlist(ls[k][1]) /\ rec.v[field] \in {Str(ls[k][1]), Str(AbsoluteUrl(ls[k][1]))}

\* What _extract_doc_urls alone gives is on the allowlist; the link found by
\* its text, when the category has no allowlisted link, need not be
C19_AllowlistedOrByText ==
    \A rec \in IpoRecordOf(ext) :
        \A ls \in LinkLists :
            ext.html = LinkPage(ls) =>
                \A field \in DocFields :
                    \/ rec.v[field] = None
                    \/ LinksFor(ls, field) # {} /\ \E k \in LinksFor(ls, field) : rec.v[field] = Str(AbsoluteUrl(ls[k][1]))
                    \/ LinksFor(ls, field) = {} /\ \E k \in 1..Len(ls) : rec.v[field] = Str(ls[k][1])

----------------------------------------------------------------------------
(* Repeated extraction: the assemblers run again and again on the documents
   of a store, in any order.  cache holds the parsed documents by URL, cache0
   the documents as they were parsed, results the records in the order of
   the runs. *)

MaxRuns == 3
RepeatUrls == {IpoUrl, NcdUrl}
RepeatPages == {TitledPage, SentencePage(2), DateTable(TwoDates, TwoDates)}

\* A document with every element taken out of it
DocumentEmptied(soup) == BeautifulSoup(EmptyPage)
\* The document after an assembler ran on it: the assemblers and the locators
\* only call find, find_all, find_next_sibling, find_parent, get_text and get
\* on it, and none of decompose, extract, replace_with, insert or append
DocumentAfter(soup) == soup

Ran(k, u, rec) ==
    /\ results' = Append(results, [kind |-> k, url |-> u, out |-> rec])
    /\ cache' = [cache EXCEPT ![u] = DocumentAfter(cache[u])]
    /\ UNCHANGED <<call, ext, urls, i, net, cache0, kind, resp>>

\* _scrape_ipo_from_soup(soup, url) on a document of the store
AssembleIpo ==
    /\ Len(results) < MaxRuns
    /\ \E u \in DOMAIN cache : Ran("ipo", u, scrape_ipo_from_soup(cache[u], u))

\* _scrape_ncd_from_soup(soup, url) on a document of the store
AssembleNcd ==
    /\ Len(results) < MaxRuns
    /\ \E u \in DOMAIN cache : Ran("ncd", u, scrape_ncd_from_soup(cache[u], u))

\* The records are handed over and the runs go on
HandOver ==
    /\ Len(results) = MaxRuns
    /\ results' = <<>>
    /\ UNCHANGED <<call, ext, urls, i, cache, net, cache0, kind, resp>>

InitRepeat ==
    /\ call = NoCall
    /\ ext = IdleExt
    /\ urls = <<>> /\ i = 0 /\ results = <<>> /\ kind = "none" /\ resp = IdleResp
    /\ net = <<>>
    /\ cache \in [RepeatUrls -> {BeautifulSoup(p) : p \in RepeatPages}]
    /\ cache0 = cache

NextRepeat == AssembleIpo \/ AssembleNcd \/ HandOver
SpecRepeat == InitRepeat /\ [][NextRepeat]_vars

----------------------------------------------------------------------------
(* Downloads (app/scraper/fetcher.py): download_html is called for any URL,
   with and without the cache and the metadata, while the site changes its
   answers.  cache holds the files of html_temp, cache0 the files before the
   last download, resp the last download, results the download before it,
   i the clock reading. *)

\* The number of downloads of a behaviour
MaxClock == 2

FetchUrls == {IpoUrl, OtherIpoUrl, NcdUrl}
\* A page whose text has a line ending in a carriage return and a line feed
CrLfPage == <<T("p", <<"Acme", "CR", "LF", "IPO">>)>>
FetchPages == {EmptyPage, TitledPage, CrLfPage}
FetchAnswers == {Failure} \cup {Page(h) : h \in FetchPages}

\* The record of a download d of url
DownloadOf(url, use_cache, d) ==
    [kind |-> "download", url |-> url, use_cache |-> use_cache, html |-> d.html,
     fetched |-> d.fetched]

\* The call returns or raises, the files are as it left them
Took(url, use_cache, d) ==
    /\ resp' = DownloadOf(url, use_cache, d)
    /\ cache' = d.files
    /\ cache0' = cache
    /\ results' = IF resp = IdleResp THEN <<>> ELSE <<resp>>

\* download_html(url, use_cache, save_metadata)
DownloadHtml ==
    /\ i < MaxClock
    /\ \E url \in FetchUrls, use_cache \in BOOLEAN, save_metadata \in BOOLEAN :
          Took(url, use_cache, download_html(cache, net, url, use_cache, save_metadata, i + 1))
    /\ i' = i + 1
    /\ UNCHANGED <<call, ext, urls, net, kind>>

\* The site answers a URL differently from now on
SiteChanges ==
    /\ \E url \in FetchUrls, a \in FetchAnswers :
          /\ a # net[url]
          /\ net' = [net EXCEPT ![url] = a]
    /\ UNCHANGED <<call, ext, urls, i, results, cache, cache0, kind, resp>>

\* html_temp is empty; the site's answers are any
InitFetch ==
    /\ call = NoCall /\ ext = IdleExt
    /\ urls = <<>> /\ i = 0 /\ results = <<>> /\ kind = "none" /\ resp = IdleResp
    /\ cache = <<>> /\ cache0 = <<>>
    /\ net \in [FetchUrls -> FetchAnswers]

NextFetch == DownloadHtml \/ SiteChanges

SpecFetch == InitFetch /\ [][NextFetch]_vars

\* The last download ran with the cache on a URL whose file existed and was
\* not empty
CacheHit ==
    /\ resp.kind = "download" /\ resp.use_cache
    /\ get_html_file_path(resp.url) \in DOMAIN cache0
    /\ cache0[get_html_file_path(resp.url)] # <<>>
\* The last download ran with the cache and found no file or an empty one
CacheMiss ==
    /\ resp.kind = "download" /\ resp.use_cache
    /\ ~(/\ get_html_file_path(resp.url) \in DOMAIN cache0
         /\ cache0[get_html_file_path(resp.url)] # <<>>)
\* The last two downloads ran with the cache on one URL, the first of them
\* fetched a page
FetchedThenAgain ==
    /\ resp.kind = "download" /\ resp.use_cache
    /\ results # <<>> /\ results[1].url = resp.url /\ results[1].use_cache
    /\ results[1].fetched /\ ~IsRaised(results[1].html)

\* C21: with the cache on, a download of a URL whose file exists and is not
\* empty returns the saved HTML without a fetch; otherwise it fetches, saves
\* the fetched HTML in the URL's file and returns it; and a download that
\* immediately follows a fetching download of the same URL returns the same
\* HTML without a fetch.
C21_CachedThenSame ==
    /\ CacheHit => (~resp.fetched /\ resp.html = Str(cache0[get_html_file_path(resp.url)]))
    /\ (CacheMiss /\ ~IsRaised(resp.html)) =>
          /\ resp.fetched
          /\ cache[get_html_file_path(resp.url)] = resp.html.v
    /\ FetchedThenAgain => (~resp.fetched /\ resp.html = results[1].html)

\* With the cache on, a hit returns what load_html reads from the file and
\* fetches nothing; a miss fetches and leaves the fetched HTML in the file
C21_HitOrFetch ==
    /\ CacheHit => (~resp.fetched /\ resp.html = load_html(cache0, resp.url))
    /\ (CacheMiss /\ ~IsRaised(resp.html)) =>
          /\ resp.fetched
          /\ cache[get_html_file_path(resp.url)] = resp.html.v

\* The download after a fetch of a page that is not empty and holds no
\* carriage return returns the same HTML without a fetch
C21_SameWithoutCr ==
    (/\ FetchedThenAgain
     /\ results[1].html.v # <<>>
     /\ read_text(results[1].html.v) = results[1].html.v)
        => (~resp.fetched /\ resp.html = results[1].html)

\* The download after a fetch of a page with a carriage return returns,
\* without a fetch, the page with its newlines translated
C21_CrTranslated ==
    (FetchedThenAgain /\ results[1].html = Str(CrLfPage))
        => (~resp.fetched /\ resp.html = Str(read_text(CrLfPage)) /\ resp.html # results[1].html)

\* The download after a fetch of an empty page fetches again
C21_EmptyFetchedAgain ==
    (FetchedThenAgain /\ results[1].html = Str(EmptyPage)) => resp.fetched

\* The HTML file and the metadata file of the last path segment of a URL
SegmentFile(url) == LastSegment(url) \o <<".html">>
SegmentMeta(url) == LastSegment(url) \o <<".json">>
\* The last download ran with the cache and the file of the URL's segment
\* existed and was not empty
SegmentHit ==
    /\ resp.kind = "download" /\ resp.use_cache
    /\ SegmentFile(resp.url) \in DOMAIN cache0
    /\ cache0[SegmentFile(resp.url)] # <<>>
\* The download before the last fetched a page that is not empty for a URL,
\* the last download ran with the cache for another URL with the same last
\* segment
SharedSegment ==
    /\ resp.kind = "download" /\ resp.use_cache
    /\ results # <<>> /\ results[1].url # resp.url
    /\ LastSegment(results[1].url) = LastSegment(resp.url)
    /\ results[1].fetched /\ ~IsRaised(results[1].html) /\ results[1].html.v # <<>>
\* The files are named after last segments only; a download with the cache
\* that finds the file of its segment returns it without a fetch; a fetch
\* leaves its page in the file of the segment
EntryOfSegment ==
    /\ \A f \in DOMAIN cache : \E u \in FetchUrls : f \in {SegmentFile(u), SegmentMeta(u)}
    /\ SegmentHit =>
          (~resp.fetched /\ resp.html = Str(read_text(cache0[SegmentFile(resp.url)])))
    /\ (resp.kind = "download" /\ resp.fetched /\ ~IsRaised(resp.html)) =>
          /\ SegmentFile(resp.url) \in DOMAIN cache
          /\ cache[SegmentFile(resp.url)] = resp.html.v

C29_FailureWritesNothing ==
    /\ (resp.kind = "download" /\ IsRaised(resp.html)) =>
          /\ resp.fetched
          /\ cache = cache0
          /\ load_html(cache, resp.url) = load_html(cache0, resp.url)
          /\ load_metadata(cache, resp.url) = load_metadata(cache0, resp.url)
    /\ (/\ resp.kind = "download" /\ results # <<>>
        /\ IsRaised(results[1].html) /\ results[1].url = resp.url
        /\ ~Truthy(load_html(cache0, resp.url))) => resp.fetched
    /\ (resp.kind = "download" /\ ~resp.fetched) => ~IsRaised(resp.html)

\* A page and its metadata were saved for a URL, then a download of the URL
\* without the cache failed: the page and the metadata are still there
C29_Witness ==
    /\ resp.kind = "download" /\ IsRaised(resp.html) /\ ~resp.use_cache
    /\ results # <<>> /\ results[1].url = resp.url /\ results[1].html = Str(TitledPage)
    /\ load_html(cache, resp.url) = Str(TitledPage)
    /\ load_metadata(cache, resp.url) # None
    /\ load_metadata(cache, resp.url).url = resp.url
    /\ cache = cache0

\* A download failed and the next download of the URL fetched its page
C29_FetchedAgain ==
    /\ resp.kind = "download" /\ results # <<>>
    /\ IsRaised(results[1].html) /\ results[1].url = resp.url
    /\ resp.use_cache /\ resp.fetched /\ resp.html = Str(TitledPage)

\* The page the first URL of the running batch was served: the saved one of
\* its segment, else the site's
FirstPage ==
    IF SegmentFile(urls[1]) \in DOMAIN cache0 THEN read_text(cache0[SegmentFile(urls[1])])
    ELSE net[urls[1]].text
\* The batch has taken two different URLs with the same last segment, and
\* the first of them was served a page
SharedInBatch ==
    /\ kind \in Kinds /\ Len(results) >= 2
    /\ urls[1] # urls[2] /\ LastSegment(urls[1]) = LastSegment(urls[2])
    /\ (SegmentFile(urls[1]) \in DOMAIN cache0 \/ net[urls[1]].ok)

\* In a batch of the endpoints that holds A and then B, two URLs with the
\* same last segment, the entry tagged with B reports what the page served
\* for A gives, whatever the site answers for B
C28_BatchReportsFirst ==
    SharedInBatch =>
        results[2] = LoopBody(kind, <<results[1]>>, urls[2], Extracted[kind][urls[2]][FirstPage])[2]

\* A batch in which the site fails for B and the entry tagged with B holds
\* the record of A's page
C28_BatchWitness ==
    /\ SharedInBatch /\ kind = "ipo"
    /\ net[urls[2]] = Failure
    /\ results[2].url = urls[2] /\ results[2].data # None
    /\ results[1].data # None
    /\ results[2].data.v.name = results[1].data.v.name

----------------------------------------------------------------------------
(* The locators and list parsers of app/scraper/parser.py and the table
   extractors of app/scraper/ncd.py, called on documents built from small
   sets of cells, cards, list items and columns.  call holds the function,
   its argument and what it returned. *)

\* Tables of definition rows: the texts of the cells, the rows of a table
MaxCellRows == 2
IssueSizeLabel == <<"Issue", " ", "Size">>
PriceLabel == <<"price">>
CellTexts ==
    {<<" ", "ISSUE", " ", "SIZE", " ", "(", "Cr", ")", " ">>, <<" ", "1", "0", "0", " ", " ", "Cr">>, <<"Price">>}
CellRows == UNION {[1..n -> CellTexts] : n \in 1..2}
CellTables == UNION {[1..n -> CellRows] : n \in 1..MaxCellRows}
CellLabels == {IssueSizeLabel, PriceLabel}
RowOfCells(cells) == E("tr", [j \in 1..Len(cells) |-> T("td", cells[j])])
TableOfCells(rows) == <<E("table", [r \in 1..Len(rows) |-> RowOfCells(rows[r])])>>

\* get_value_by_label_contains(soup, label) on a table
CallValueByLabel ==
    /\ call = NoCall
    /\ \E rows \in CellTables, label \in CellLabels :
          call' = [fn |-> "get_value_by_label_contains",
                   arg |-> [rows |-> rows, label |-> label],
                   ret |-> get_value_by_label_contains(BeautifulSoup(TableOfCells(rows)), label)]
    /\ UNCHANGED <<extVars, apiVars>>

\* The cells of a table in document order, each with its place
PlacesOf(rows) ==
    Concat([r \in 1..Len(rows) |-> [c \in 1..Len(rows[r]) |-> [row |-> r, col |-> c]]])
\* The places whose cell text holds the label, whatever the case
LabelPlaces(rows, label) ==
    SelectSeq(PlacesOf(rows), LAMBDA p : In(Lower(label), Lower(Strip(rows[p.row][p.col]))))
\* The cleaned text of the cell after the place, None at the end of a row
ValueAfter(rows, p) ==
    IF p.col < Len(rows[p.row]) THEN Str(clean_text(rows[p.row][p.col + 1])) ELSE None

\* C22: the definition-table lookup returns the cleaned text of the cell next
\* to the first cell, in document order, whose text holds the label in any
\* case (nothing when no cell holds it or the row ends there), and it returns
\* the same for the table cut after the row of that cell: the cells further
\* down have no influence.
C22_FirstLabelCell ==
    call.fn = "get_value_by_label_contains" =>
        IF LabelPlaces(call.arg.rows, call.arg.label) = <<>> THEN call.ret = None
        ELSE /\ call.ret = ValueAfter(call.arg.rows, LabelPlaces(call.arg.rows, call.arg.label)[1])
             /\ call.ret = get_value_by_label_contains(
                               BeautifulSoup(TableOfCells(SubSeq(call.arg.rows, 1,
                                   LabelPlaces(call.arg.rows, call.arg.label)[1].row))),
                               call.arg.label)

\* A table whose two rows both hold the label in their first cell, in another
\* case than the label and with different values: the value of the first row
C22_Witness ==
    /\ call.fn = "get_value_by_label_contains"
    /\ call.arg.label = IssueSizeLabel
    /\ Len(LabelPlaces(call.arg.rows, call.arg.label)) = 2
    /\ Len(call.arg.rows) = 2
    /\ call.arg.rows[1] = <<<<" ", "ISSUE", " ", "SIZE", " ", "(", "Cr", ")", " ">>, <<" ", "1", "0", "0", " ", " ", "Cr">>>>
    /\ call.arg.rows[2] = <<<<" ", "ISSUE", " ", "SIZE", " ", "(", "Cr", ")", " ">>, <<"Price">>>>
    /\ call.ret = Str(<<"1", "0", "0", " ", "Cr">>)

\* Cards: a heading and a content block, in a card with a header and a body,
\* in one container, or directly in the body of the page
StrengthsHeadings == <<<<"strength">>, <<"competitive", " ", "strengths">>>>
BrandItem == <<T("li", <<"Brand">>)>>
CardBlocks ==
    {E("ul", BrandItem), Tag("ul", [class |-> <<"registrar-info">>], BrandItem), E("ol", BrandItem),
     T("address", <<"Mumbai">>), E("table", <<RowOfCells(<<<<"Brand">>>>)>>), T("p", <<"Brand">>)}
CardHeadings ==
    {T("h2", <<" ", "Strengths", " ">>), T("h3", <<"Competitive", " ", "Strengths">>),
     T("h4", <<"Strengths">>), T("h2", <<"Weaknesses">>)}
NestedCard(heading, block) ==
    Tag("div", [class |-> <<"card">>],
        <<Tag("div", [class |-> <<"card-header">>], <<heading>>),
          Tag("div", [class |-> <<"card-body">>], <<block>>)>>)
FlatCard(heading, block) == Tag("div", [class |-> <<"card">>], <<heading, block>>)
Cards ==
    {NestedCard(h, b) : h \in CardHeadings, b \in CardBlocks}
    \cup {FlatCard(h, b) : h \in CardHeadings, b \in CardBlocks}
CardPages ==
    {<<c>> : c \in Cards}
    \cup {<<h, b>> : h \in CardHeadings, b \in CardBlocks}
    \cup {<<FlatCard(T("h2", <<"Weaknesses">>), b), NestedCard(T("h3", <<"Strengths">>), c)>> :
             b \in CardBlocks, c \in CardBlocks}

\* find_card_by_heading(soup, "strength", "competitive strengths"): the
\* element returned, 0 for None
CallFindCard ==
    /\ call = NoCall
    /\ \E page \in CardPages :
          call' = [fn |-> "find_card_by_heading", arg |-> page,
                   ret |-> find_card_by_heading(BeautifulSoup(page), StrengthsHeadings)]
    /\ UNCHANGED <<extVars, apiVars>>

\* The first h2 or h3 whose text holds one of the labels, 0 when none does
FirstHeading(soup, headings) ==
    First(SelectSeq(Tags(soup, 1, {"h2", "h3"}),
                    LAMBDA x : InAny(Map(Lower, headings), Lower(clean_text(get_text(soup, x))))))
\* The nearest element from p upwards, below body, that contains a list of
\* either kind, an address or a table; 0 when none does
RECURSIVE NearestWithContent(_, _)
NearestWithContent(soup, p) ==
    IF p = 0 THEN 0
    ELSE IF soup[p].tag = "body" THEN 0
    ELSE IF FirstTagIn(soup, p, {"ol", "ul", "address", "table"}) # 0 THEN p
    ELSE NearestWithContent(soup, soup[p].parent)
\* The nearest such ancestor of the heading, else the heading's parent
CardWithContent(soup, h) ==
    IF h = 0 THEN 0 ELSE OrNode(NearestWithContent(soup, soup[h].parent), soup[h].parent)
\* The block of the page is a list without the registrar class
PlainListIn(soup) ==
    \E m \in 1..Len(soup) : soup[m].tag = "ul" /\ ~HasClass(soup, m, "registrar")

\* C23: for the first h2/h3 heading whose text holds one of the labels the
\* section locator returns the nearest ancestor of the heading, below body,
\* that contains an ordered list, an unordered list, an address or a table;
\* the heading's parent only when no ancestor contains one; nothing when no
\* heading matches.
C23_NearestWithContent ==
    call.fn = "find_card_by_heading" =>
        call.ret = CardWithContent(BeautifulSoup(call.arg),
                                   FirstHeading(BeautifulSoup(call.arg), StrengthsHeadings))

\* It does on the pages whose lists are ordered or carry the registrar class
C23_OtherBlocks ==
    (call.fn = "find_card_by_heading" /\ ~PlainListIn(BeautifulSoup(call.arg))) =>
        call.ret = CardWithContent(BeautifulSoup(call.arg),
                                   FirstHeading(BeautifulSoup(call.arg), StrengthsHeadings))

\* In a card whose body holds a plain unordered list the locator returns the
\* header of the card, the heading's parent, which holds no list
C23_HeaderOfPlainList ==
    (/\ call.fn = "find_card_by_heading"
     /\ call.arg = <<NestedCard(T("h2", <<" ", "Strengths", " ">>), E("ul", BrandItem))>>)
        => /\ HasClass(BeautifulSoup(call.arg), call.ret, "card-header")
           /\ extract_list(BeautifulSoup(call.arg), call.ret) = <<>>
           /\ HasClass(BeautifulSoup(call.arg),
                       CardWithContent(BeautifulSoup(call.arg),
                                       FirstHeading(BeautifulSoup(call.arg), StrengthsHeadings)),
                       "card")

\* Contact lists: one list item with or without an icon, holding phone
\* numbers separated by commas, an email address, both, a link or plain text
MaxNumbers == 2
LandLine == <<"0", "2", "2", "-", "1", "2", "3", "4", "5", "6", "7", "8">>
Mobile == <<"+", "9", "1", " ", "9", "8", "7", "6", "5", "4", "3", "2", "1", "0">>
LocalNumber == <<"2", "3", "4", "5", "6", "7", "8">>
PhoneNumbers == {LandLine, Mobile, LocalNumber}
NumberLists == UNION {[1..n -> PhoneNumbers] : n \in 1..MaxNumbers}
CareEmail == <<"care", "@", "acme", ".", "in">>
AcmeSite == <<"https:", "/", "/", "acme", ".", "in">>
ItemIcons == {"none", "fa-phone", "fa-envelope", "fa-globe", "fa-fax"}
\* What an item holds: its text, the target of its link if it has one, and
\* the phone numbers written in it
ItemContents ==
    {[text |-> Join(<<",", " ">>, ns), link |-> <<>>, numbers |-> ns] : ns \in NumberLists}
    \cup {[text |-> Join(<<",", " ">>, ns) \o <<",", " ">> \o CareEmail, link |-> <<>>, numbers |-> ns] :
             ns \in NumberLists}
    \cup {[text |-> CareEmail, link |-> <<>>, numbers |-> <<>>],
          [text |-> <<"Email", " ", "us">>, link |-> <<"mailto:">> \o CareEmail, numbers |-> <<>>],
          [text |-> <<"Visit">>, link |-> AcmeSite, numbers |-> <<>>],
          [text |-> <<"Mumbai">>, link |-> <<>>, numbers |-> <<>>]}
ItemText(content) ==
    IF content.link = <<>> THEN <<NavigableString(content.text)>>
    ELSE <<Tag("a", [href |-> content.link], <<NavigableString(content.text)>>)>>
ItemOf(icon, content) ==
    E("li", (IF icon = "none" THEN <<>> ELSE <<Tag("i", [class |-> <<"fa", icon>>], <<>>)>>)
            \o ItemText(content))
ContactList(icon, content) == <<Tag("ul", [class |-> <<"registrar-info">>], <<ItemOf(icon, content)>>)>>

\* parse_registrar_info_ul(ul) on the list of a page
ParsedList(soup) == parse_registrar_info_ul(soup, FirstTagIn(soup, 1, {"ul"}))
CallParseRegistrar ==
    /\ call = NoCall
    /\ \E icon \in ItemIcons, content \in ItemContents :
          call' = [fn |-> "parse_registrar_info_ul", arg |-> [icon |-> icon, content |-> content],
                   ret |-> ParsedList(BeautifulSoup(ContactList(icon, content)))]
    /\ UNCHANGED <<extVars, apiVars>>

\* What the content of an item alone says: an email for a text with "@", a
\* website for a link to an http address
Sniffed(content) ==
    [phone_numbers |-> <<>>,
     email |-> IF In(<<"@">>, content.text) THEN content.text ELSE <<>>,
     website |-> IF ~In(<<"@">>, content.text) /\ StartsWithHttp(content.link)
                 THEN content.link ELSE <<>>]

\* C24: an item with a phone icon gives phone numbers only and an item with
\* an envelope icon the email only; the content of the item ("@" in the
\* text, a link to an http address) decides only for an item without an icon
\* or with an icon that is none of the known ones.
C24_IconFirst ==
    call.fn = "parse_registrar_info_ul" =>
        /\ call.arg.icon = "fa-phone" => (call.ret.email = <<>> /\ call.ret.website = <<>>)
        /\ call.arg.icon = "fa-envelope" =>
              (call.ret.phone_numbers = <<>> /\ call.ret.website = <<>>)
        /\ call.arg.icon = "fa-globe" =>
              (call.ret.phone_numbers = <<>> /\ call.ret.email = <<>>)
        /\ call.arg.icon \in {"none", "fa-fax"} => call.ret = Sniffed(call.arg.content)

\* It is so for every item whose text holds no "@"
C24_WithoutAt ==
    (call.fn = "parse_registrar_info_ul" /\ ~In(<<"@">>, call.arg.content.text)) =>
        /\ call.arg.icon = "fa-phone" => (call.ret.email = <<>> /\ call.ret.website = <<>>)
        /\ call.arg.icon = "fa-envelope" =>
              (call.ret.phone_numbers = <<>> /\ call.ret.website = <<>>)
        /\ call.arg.icon = "fa-globe" =>
              (call.ret.phone_numbers = <<>> /\ call.ret.email = <<>>)
        /\ call.arg.icon \in {"none", "fa-fax"} => call.ret = Sniffed(call.arg.content)

\* An item whose text holds "@" gives the email, its whole text, and no
\* phone number, whatever its icon
C24_AtDecides ==
    (call.fn = "parse_registrar_info_ul" /\ In(<<"@">>, call.arg.content.text)) =>
        call.ret = [phone_numbers |-> <<>>, email |-> call.arg.content.text, website |-> <<>>]

\* The item with the phone icon that holds a number and an address was parsed
C24_PhoneItemWithAt ==
    /\ call.fn = "parse_registrar_info_ul"
    /\ call.arg.icon = "fa-phone"
    /\ call.arg.content.numbers = <<LandLine>>
    /\ In(<<"@">>, call.arg.content.text)
    /\ call.ret.phone_numbers = <<>>
    /\ call.ret.email = LandLine \o <<",", " ">> \o CareEmail

\* The list item has the phone icon and holds phone numbers only
PhoneItem ==
    /\ call.fn = "parse_registrar_info_ul"
    /\ call.arg.icon = "fa-phone"
    /\ call.arg.content.numbers # <<>>
    /\ ~In(<<"@">>, call.arg.content.text)

C25_ShortLeftOut ==
    (PhoneItem /\ call.arg.content.numbers = <<LocalNumber, LandLine>>)
        => call.ret.phone_numbers = <<LandLine>>

\* Coupon tables: a header row "#" and up to MaxSeries header cells, a tenor
\* row with a cell for every column and a coupon row with cells for the
\* first columns
MaxSeries == 2
SeriesHeaders == {<<"Series", " ", "1">>, <<"Series", " ", "2">>, <<>>, <<"Sr", " ", "#">>}
CouponCells ==
    {[text |-> <<"8", ".", "5", "%">>, value |-> Dec(85, 1)],
     [text |-> <<"9", ".", "2", "5">>, value |-> Dec(925, 2)],
     [text |-> <<"NA">>, value |-> Dec(0, 0)],
     [text |-> <<"TBA">>, value |-> Dec(0, 0)]}
TenorOf(col) == NatText(col) \o <<" ", "Years">>
SeriesTable(headers, coupons) ==
    <<Tag("table", [id |-> "couponTable"],
          <<E("thead", <<E("tr", <<Th(<<"#">>)>> \o [j \in 1..Len(headers) |-> Th(headers[j])])>>),
            E("tbody",
              <<E("tr", <<Td(<<"Tenor">>)>> \o [j \in 1..Len(headers) |-> Td(TenorOf(j))]),
                E("tr", <<Td(<<"Coupon", " ", "(", "%", ")">>)>>
                        \o [j \in 1..Len(coupons) |-> Td(coupons[j].text)])>>)>>)>>

\* _extract_coupon_series(soup) on a coupon table
CallCouponSeries ==
    /\ call = NoCall
    /\ \E n \in 1..MaxSeries : \E headers \in [1..n -> SeriesHeaders] :
          \E m \in 0..n : \E coupons \in [1..m -> CouponCells] :
              call' = [fn |-> "_extract_coupon_series",
                       arg |-> [headers |-> headers, coupons |-> coupons],
                       ret |-> ncd_extract_coupon_series(BeautifulSoup(SeriesTable(headers, coupons)))]
    /\ UNCHANGED <<extVars, apiVars>>

\* A header cell names a series: it is not empty and, if it holds "#", it
\* holds "Series" as well
NamesSeries(h) == h # <<>> /\ (~In(<<"#">>, h) \/ In(<<"Series">>, h))
\* The columns of the table whose header names a series, in their order
SeriesColumns(headers) == SelectSeq([j \in 1..Len(headers) |-> j], LAMBDA j : NamesSeries(headers[j]))
\* What the column col of the table holds for a series
ColumnValues(headers, coupons, col) ==
    [series_name |-> headers[col],
     tenor |-> TenorOf(col),
     coupon_percent_pa |-> IF col <= Len(coupons) THEN coupons[col].value ELSE Dec(0, 0)]
\* The Python number x, an int or a float, has the value d
HasValue(x, d) == IF x.t = "int" THEN d = Dec(x.v, 0) ELSE x.t = "num" /\ x.v = d
\* The record holds the values of the column
FromColumn(rec, column) ==
    /\ rec.series_name = column.series_name
    /\ rec.tenor = column.tenor
    /\ HasValue(rec.coupon_percent_pa, column.coupon_percent_pa)
    /\ rec.frequency_of_interest_payment = <<>> /\ rec.nature = <<>>
    /\ HasValue(rec.effective_yield_percent_pa, Dec(0, 0))
    /\ HasValue(rec.amount_on_maturity, Dec(0, 0))
\* The records are those of the series columns, one for each, in order
SeriesFromColumns(headers, coupons, series) ==
    /\ Len(series) = Len(SeriesColumns(headers))
    /\ \A k \in 1..Len(series) :
          FromColumn(series[k], ColumnValues(headers, coupons, SeriesColumns(headers)[k]))

\* C27: for a coupon table of which some header names a series, the series
\* are one record for each column whose header names a series, and every
\* value of a record is that of the column under the header that is its
\* series_name, also when another header cell is empty or names no series;
\* a missing, "NA" or unparseable number is 0.
C27_ValuesOfOwnColumn ==
    (call.fn = "_extract_coupon_series" /\ SeriesColumns(call.arg.headers) # <<>>) =>
        SeriesFromColumns(call.arg.headers, call.arg.coupons, call.ret.v)

\* It is so when every header cell names a series
C27_AllHeadersNamed ==
    (/\ call.fn = "_extract_coupon_series"
     /\ Len(SeriesColumns(call.arg.headers)) = Len(call.arg.headers))
        => SeriesFromColumns(call.arg.headers, call.arg.coupons, call.ret.v)

\* With an empty header cell before the header "Series 1" the record named
\* Series 1 holds the tenor and the coupon of the first column, not of its own
C27_ShiftedByEmptyHeader ==
    (/\ call.fn = "_extract_coupon_series"
     /\ call.arg.headers = <<<<>>, <<"Series", " ", "1">>>>
     /\ Len(call.arg.coupons) = 2
     /\ call.arg.coupons[1].text = <<"8", ".", "5", "%">>
     /\ call.arg.coupons[2].text = <<"9", ".", "2", "5">>)
        => /\ Len(call.ret.v) = 1
           /\ call.ret.v[1].series_name = <<"Series", " ", "1">>
           /\ call.ret.v[1].tenor = TenorOf(1)
           /\ call.ret.v[1].coupon_percent_pa = Num(Dec(85, 1))

----------------------------------------------------------------------------
(* The coupon rates of an NCD record: the percentages of the card, the "upto"
   of the card and the rates of the coupon series *)

CouponRateLabel == <<"Coupon", " ", "Rate">>
CouponLabel == <<"Coupon">>
CouponLabels == {CouponRateLabel, CouponLabel}
UptoText == <<"Upto", " ", "8", ".", "9", "%", " ", "p", ".", "a", ".">>
RateBandText == <<"8", ".", "5", "%", " ", "to", " ", "9", ".", "2", "5", "%">>
OneRateText == <<"9", "%">>
UptoZeroText == <<"upto", " ", "0", "%">>
PlainText == <<"Monthly">>
CouponTexts == {UptoText, RateBandText, OneRateText, UptoZeroText, PlainText}
\* The coupon cells of the series: two rates and none
RateCells == {c \in CouponCells : c.text # <<"TBA">>}
\* The top-ratios entry of the coupon, nothing for no label
CouponEntry(label, text) ==
    IF label = <<>> THEN <<>>
    ELSE TopRatios(<<E("li", <<T("span", label), Tc("span", "text-end", text)>>)>>)
\* The coupon table of the series, nothing for no series
CouponTable(coupons) ==
    IF coupons = <<>> THEN <<>>
    ELSE SeriesTable([j \in 1..Len(coupons) |-> <<"Series", " ">> \o NatText(j)], coupons)
CouponPage(label, text, coupons) == CouponEntry(label, text) \o CouponTable(coupons)

\* _scrape_ncd_from_soup(soup, url) on a page with a coupon entry and a coupon table
CallScrapeNcd ==
    /\ call = NoCall
    /\ \E label \in CouponLabels \cup {<<>>} : \E text \in CouponTexts :
          \E m \in 0..MaxSeries : \E coupons \in [1..m -> RateCells] :
              call' = [fn |-> "_scrape_ncd_from_soup",
                       arg |-> [label |-> label, text |-> text, coupons |-> coupons],
                       ret |-> scrape_ncd_from_soup(BeautifulSoup(CouponPage(label, text, coupons)), NcdUrl)]
    /\ UNCHANGED <<extVars, apiVars>>

\* The NCD records: the one _scrape_ncd_from_soup returned to the call
ScrapedNcd == IF call.fn = "_scrape_ncd_from_soup" THEN {call.ret.v} ELSE {}
\* Both rates are None, or both are set and the minimum is at most the maximum
RatesInOrder(rec) ==
    \/ IsNone(rec.coupon_rate_min) /\ IsNone(rec.coupon_rate_max)
    \/ /\ ~IsNone(rec.coupon_rate_min)
       /\ ~IsNone(rec.coupon_rate_max)
       /\ DecLeq(ValueOf(rec.coupon_rate_min), ValueOf(rec.coupon_rate_max))
\* The rates of the card of the called page, before the series are merged
RatesBeforeSeries ==
    IF call.arg.label = <<>> THEN Rates(None, None)
    ELSE RatesOfCard(IF call.arg.label = CouponRateLabel THEN Str(call.arg.text) ELSE None,
                     Str(call.arg.text))
\* rec has the minimum of before or a lower one, the maximum of before or a higher one
Widened(before, rec) ==
    /\ ~IsNone(before.coupon_rate_min) =>
          /\ ~IsNone(rec.coupon_rate_min)
          /\ DecLeq(ValueOf(rec.coupon_rate_min), ValueOf(before.coupon_rate_min))
    /\ ~IsNone(before.coupon_rate_max) =>
          /\ ~IsNone(rec.coupon_rate_max)
          /\ DecLeq(ValueOf(before.coupon_rate_max), ValueOf(rec.coupon_rate_max))

\* C30: in every NCD record coupon_rate_min and coupon_rate_max are both None
\* or both set with coupon_rate_min <= coupon_rate_max, whatever the card text
\* and the series rates; merging the series rates only lowers the minimum and
\* raises the maximum of the card.
C30_RatesInOrder ==
    \A rec \in ScrapedNcd : RatesInOrder(rec) /\ Widened(RatesBeforeSeries, rec)
\* A single rate of 9% on the card and a series of 8.5%: the series lowers the
\* minimum and the maximum stays
C30_Witness ==
    /\ call.fn = "_scrape_ncd_from_soup"
    /\ call.arg.label = CouponRateLabel
    /\ call.arg.text = OneRateText
    /\ Len(call.arg.coupons) = 1
    /\ call.arg.coupons[1].value = Dec(85, 1)
    /\ call.ret.v.coupon_rate_min = Num(Dec(85, 1))
    /\ call.ret.v.coupon_rate_max = Num(Dec(9, 0))
\* The card alone: "Upto 8.9% p.a." gives 8.9 and 8.9, a range its ends, a text
\* without a percentage nothing
C30_CardAlone ==
    (call.fn = "_scrape_ncd_from_soup" /\ call.arg.label = CouponRateLabel /\ call.arg.coupons = <<>>) =>
        /\ call.arg.text = UptoText => call.ret.v.coupon_rate_min = Num(Dec(89, 1))
                                       /\ call.ret.v.coupon_rate_max = Num(Dec(89, 1))
        /\ call.arg.text = RateBandText => call.ret.v.coupon_rate_min = Num(Dec(85, 1))
                                        /\ call.ret.v.coupon_rate_max = Num(Dec(925, 2))
        /\ call.arg.text = PlainText => IsNone(call.ret.v.coupon_rate_min)
                                        /\ IsNone(call.ret.v.coupon_rate_max)
        /\ call.arg.text = UptoZeroText => call.ret.v.coupon_rate_min = Num(Dec(0, 0))
                                           /\ call.ret.v.coupon_rate_max = PyInt(0)
\* No card: the rates are those of the series that are not zero, None without one
C30_SeriesAlone ==
    (call.fn = "_scrape_ncd_from_soup" /\ call.arg.label = <<>> /\ Len(call.arg.coupons) = 2) =>
        /\ (call.arg.coupons[1].value = Dec(85, 1) /\ call.arg.coupons[2].value = Dec(925, 2)) =>
               /\ call.ret.v.coupon_rate_min = Num(Dec(85, 1))
               /\ call.ret.v.coupon_rate_max = Num(Dec(925, 2))
        /\ (call.arg.coupons[1].value = Dec(0, 0) /\ call.arg.coupons[2].value = Dec(0, 0)) =>
               /\ IsNone(call.ret.v.coupon_rate_min)
               /\ IsNone(call.ret.v.coupon_rate_max)
\* The same for the records of the extraction
C30_ExtractedInOrder == \A rec \in NcdRecordOf(ext) : RatesInOrder(rec.v)

NextLocate ==
    CallValueByLabel \/ CallFindCard \/ CallParseRegistrar \/ CallCouponSeries \/ CallScrapeNcd \/ Return

SpecLocate == InitNorm /\ [][NextLocate]_vars

----------------------------------------------------------------------------
(* Properties of the narrative lists of the IPO record *)

NarrativeFields ==
    {"strengths", "weaknesses", "opportunities", "threats", "products", "services", "promoters"}
\* The navigation and advertising phrases of _extract_about and
\* _extract_services
Denylist ==
    ServiceExclude
    \o <<<<"IPO", " ", "Reports">>, <<"eBook">>, <<"List", " ", "of">>, <<"Performance">>,
         <<"Read", " ", "More">>>>

\* C26: no item of a narrative list of the IPO record holds a phrase of the
\* denylist, and none is empty (the least of the minimum lengths).
C26_NoNoiseItems ==
    \A rec \in IpoRecordOf(ext) : \A f \in NarrativeFields :
        \A k \in 1..Len(rec.v[f].v) :
            /\ rec.v[f].v[k] # <<>>
            /\ ~InAny(Denylist, rec.v[f].v[k])

\* The items of services are never empty and hold no phrase the services
\* extractor excludes
C26_ServicesFiltered ==
    \A rec \in IpoRecordOf(ext) :
        \A k \in 1..Len(rec.v.services.v) :
            /\ rec.v.services.v[k] # <<>>
            /\ ~InAny(ServiceExclude, rec.v.services.v[k])

\* The list items of a weaknesses card are taken as they are written, the
\* blank one and the navigation link included
C26_ItemsAsWritten ==
    \A rec \in IpoRecordOf(ext) :
        ext.html = NoisyCard =>
            rec.v.weaknesses = List(<<<<"High", " ", "debt">>, <<>>, <<"Read", " ", "More">>>>)

====
